---------------------------- MODULE Spec2Model ----------------------------
(***************************************************************************)
(* FlowForge backend: the Run Execution Engine (WorkflowExecutor), the     *)
(* Criteria Evaluator (evaluateCriteria) and the Context Extractor         *)
(* (extractContext), with the parts of the JSON persistence layer          *)
(* (db/schema.js) and of the event transport the engine uses.              *)
(*                                                                         *)
(* Text is a sequence of one-character strings, so that substring tests,   *)
(* placeholder substitution and fence extraction are computed as the       *)
(* JavaScript string methods compute them.                                 *)
(***************************************************************************)
EXTENDS Integers, Sequences, FiniteSets, TLC

(***************************************************************************)
(* Bounds of the model.                                                    *)
(***************************************************************************)
\* longest workflow (number of steps) stored in data.json
MaxSteps == 2

\* most raises of client.send during the executeSteps call of one run
MaxSendFailures == 1

(***************************************************************************)
(* Text helpers (JavaScript String methods).                               *)
(***************************************************************************)
\* JavaScript null (a persisted field that was never written)
NULL == <<"null">>

\* the literal '{context}' of executor.js
ContextPlaceholder == <<"{", "c", "o", "n", "t", "e", "x", "t", "}">>

\* the backtick character (written by name: a TLA+ string cannot hold it)
BackTick == "backtick"

\* the fence delimiter (three backticks) of the patterns of evaluateCode and extractContext
Fence == <<BackTick, BackTick, BackTick>>

UpperLetters == <<"A","B","C","D","E","F","G","H","I","J","K","L","M","N","O","P","Q","R","S","T","U","V","W","X","Y","Z">>

LowerLetters == <<"a","b","c","d","e","f","g","h","i","j","k","l","m","n","o","p","q","r","s","t","u","v","w","x","y","z">>

Digits == {"0","1","2","3","4","5","6","7","8","9"}

\* the class \w of a JavaScript regular expression
WordChars == {UpperLetters[k] : k \in 1..26} \cup {LowerLetters[k] : k \in 1..26} \cup Digits \cup {"_"}

\* the characters String.prototype.trim removes (those a TLA+ string can hold)
WhiteSpace == {" ", "\t", "\n", "\r", "\f"}

\* t occurs in s at position k (1-based)
MatchesAt(s, t, k) ==
  /\ k >= 1
  /\ k + Len(t) - 1 <= Len(s)
  /\ \A j \in 1..Len(t) : s[k + j - 1] = t[j]

\* String.prototype.includes
includes(s, t) ==
  \E k \in 1..(Len(s) + 1) : MatchesAt(s, t, k)

\* String.prototype.indexOf(t, from), 1-based; 0 when t does not occur
IndexOfFrom(s, t, from) ==
  LET hits == {k \in from..(Len(s) + 1) : MatchesAt(s, t, k)}
  IN  IF hits = {} THEN 0 ELSE CHOOSE k \in hits : \A j \in hits : k <= j

\* String.prototype.substring(a) with a 0-based: the text from 1-based position k on
TextFrom(s, k) ==
  IF k > Len(s) THEN <<>> ELSE SubSeq(s, k, Len(s))

lowerChar(c) ==
  IF \E k \in 1..26 : UpperLetters[k] = c
    THEN LowerLetters[CHOOSE k \in 1..26 : UpperLetters[k] = c]
    ELSE c

\* String.prototype.toLowerCase
toLowerCase(s) ==
  [k \in 1..Len(s) |-> lowerChar(s[k])]

upperChar(c) ==
  IF \E k \in 1..26 : LowerLetters[k] = c
    THEN UpperLetters[CHOOSE k \in 1..26 : LowerLetters[k] = c]
    ELSE c

\* String.prototype.toUpperCase
toUpperCase(s) ==
  [k \in 1..Len(s) |-> upperChar(s[k])]

\* String.prototype.startsWith
startsWith(s, t) ==
  MatchesAt(s, t, 1)

\* String.prototype.trim
trim(s) ==
  LET keep == {k \in 1..Len(s) : s[k] \notin WhiteSpace}
  IN  IF keep = {} THEN <<>>
      ELSE SubSeq(s, CHOOSE a \in keep : \A j \in keep : a <= j,
                     CHOOSE b \in keep : \A j \in keep : b >= j)

(***************************************************************************)
(* String.prototype.replace(/\{context\}/g, replacement): the replacement  *)
(* is a replacement pattern, in which $$ stands for "$", $& for the        *)
(* matched text, $ and a backtick for the text before the match and $ and  *)
(* an apostrophe for the text after it; the pattern has no capture group,  *)
(* so $1..$99 and $< stay as written.                                      *)
(***************************************************************************)
RECURSIVE GetSubstitution(_, _, _, _, _)
GetSubstitution(repl, k, matched, before, after) ==
  IF k > Len(repl) THEN <<>>
  ELSE IF repl[k] = "$" /\ k < Len(repl) /\ repl[k + 1] \in {"$", "&", BackTick, "'"}
    THEN (CASE repl[k + 1] = "$" -> <<"$">>
            [] repl[k + 1] = "&" -> matched
            [] repl[k + 1] = BackTick -> before
            [] OTHER             -> after)
         \o GetSubstitution(repl, k + 2, matched, before, after)
    ELSE <<repl[k]>> \o GetSubstitution(repl, k + 1, matched, before, after)

RECURSIVE ReplaceFrom(_, _, _, _)
ReplaceFrom(s, pat, repl, from) ==
  LET at == IndexOfFrom(s, pat, from)
  IN  IF at = 0 THEN TextFrom(s, from)
      ELSE SubSeq(s, from, at - 1)
           \o GetSubstitution(repl, 1, pat, SubSeq(s, 1, at - 1), TextFrom(s, at + Len(pat)))
           \o ReplaceFrom(s, pat, repl, at + Len(pat))

\* prompt.replace(/\{context\}/g, previousContext)
replaceAllPattern(s, pat, repl) ==
  ReplaceFrom(s, pat, repl, 1)

(***************************************************************************)
(* Criteria Evaluator (services/criteria.js).  A verdict is a record       *)
(* [passed, reason]; a reason is text: its fixed wording as one element,   *)
(* followed by the characters of the value interpolated into it.           *)
(***************************************************************************)
\* evaluateContains comparing the texts as they are, without toLowerCase
evaluateContainsCaseSensitive(output, value) ==
  IF value = <<>> THEN [passed |-> TRUE, reason |-> <<"No value to check">>]
  ELSE LET contains == includes(output, value)
       IN  [passed |-> contains,
            reason |-> IF contains THEN <<"Output contains ", "\"">> \o value \o <<"\"">>
                                   ELSE <<"Output does not contain ", "\"">> \o value \o <<"\"">>]

evaluateContains(output, value) ==
  IF value = <<>> THEN [passed |-> TRUE, reason |-> <<"No value to check">>]
  ELSE LET contains == includes(toLowerCase(output), toLowerCase(value))
       IN  [passed |-> contains,
            reason |-> IF contains THEN <<"Output contains ", "\"">> \o value \o <<"\"">>
                                   ELSE <<"Output does not contain ", "\"">> \o value \o <<"\"">>]

evaluateNotContains(output, value) ==
  IF value = <<>> THEN [passed |-> TRUE, reason |-> <<"No value to check">>]
  ELSE LET contains == includes(toLowerCase(output), toLowerCase(value))
       IN  [passed |-> ~contains,
            reason |-> IF ~contains THEN <<"Output does not contain ", "\"">> \o value \o <<"\"">>
                                    ELSE <<"Output contains ", "\"">> \o value \o <<"\"", " (should not)">>]

\* the decimal digits in order
DigitSeq == <<"0", "1", "2", "3", "4", "5", "6", "7", "8", "9">>

\* the value of the digit c in radix 10 or 16
digitValue(c) ==
  IF c \in Digits THEN (CHOOSE k \in 1..10 : DigitSeq[k] = c) - 1
  ELSE 9 + (CHOOSE k \in 1..6 : LowerLetters[k] = lowerChar(c))

\* Number.prototype.toString of an integer
RECURSIVE numberText(_)
numberText(n) ==
  IF n < 0 THEN <<"-">> \o numberText(0 - n)
  ELSE IF n < 10 THEN <<DigitSeq[n + 1]>>
  ELSE numberText(n \div 10) \o <<DigitSeq[(n % 10) + 1]>>

\* the result NaN of parseInt
NaN == [nan |-> TRUE, value |-> 0]

\* the longest run of digits of the radix at the head of body, as a number;
\* no digit at all gives NaN
parseDigits(body, radix) ==
  LET isDigit(c) ==
        c \in Digits \/ (radix = 16 /\ \E k \in 1..6 : c \in {LowerLetters[k], UpperLetters[k]})
      n == Cardinality({k \in 1..Len(body) : \A j \in 1..k : isDigit(body[j])})
      RECURSIVE magnitude(_)
      magnitude(k) ==
        IF k = 0 THEN 0 ELSE radix * magnitude(k - 1) + digitValue(body[k])
  IN  IF n = 0 THEN NaN ELSE [nan |-> FALSE, value |-> magnitude(n)]

\* a prefix 0x or 0X makes the radix 16
parseUnsigned(u) ==
  IF Len(u) >= 2 /\ u[1] = "0" /\ u[2] \in {"x", "X"}
    THEN parseDigits(SubSeq(u, 3, Len(u)), 16)
    ELSE parseDigits(u, 10)

\* the number with the sign '-' applied
negated(parsed) ==
  [nan |-> parsed.nan, value |-> 0 - parsed.value]

\* an optional sign, then the number
parseSigned(t) ==
  IF t # <<>> /\ t[1] = "-" THEN negated(parseUnsigned(Tail(t)))
  ELSE IF t # <<>> /\ t[1] = "+" THEN parseUnsigned(Tail(t))
  ELSE parseUnsigned(t)

\* parseInt(text): white space is skipped, then an optional sign, an optional
\* prefix 0x or 0X, and the longest run of digits of the radix is read; the
\* rest of the text is ignored, and no digit at all gives NaN
parseInt(text) ==
  parseSigned(trim(text))

\* the verdict of evaluateLengthMin for an output of that length
lengthMinVerdict(length, parsed) ==
  LET min == IF parsed.nan THEN 0 ELSE parsed.value
  IN  IF length >= min
        THEN [passed |-> TRUE,
              reason |-> <<"Output length (">> \o numberText(length) \o <<") meets minimum (">>
                           \o numberText(min) \o <<")">>]
        ELSE [passed |-> FALSE,
              reason |-> <<"Output too short (">> \o numberText(length) \o <<" < ">>
                           \o numberText(min) \o <<")">>]

\* const min = parseInt(minLength) || 0
evaluateLengthMin(output, minLength) ==
  lengthMinVerdict(Len(output), parseInt(minLength))

\* the verdict of evaluateLengthMax for an output of that length: the limit
\* is Infinity when parseInt gave NaN or 0
lengthMaxVerdict(length, parsed) ==
  IF parsed.nan \/ parsed.value = 0
    THEN [passed |-> TRUE,
          reason |-> <<"Output length (">> \o numberText(length)
                       \o <<") within maximum (", "Infinity", ")">>]
  ELSE IF length <= parsed.value
    THEN [passed |-> TRUE,
          reason |-> <<"Output length (">> \o numberText(length) \o <<") within maximum (">>
                       \o numberText(parsed.value) \o <<")">>]
  ELSE [passed |-> FALSE,
        reason |-> <<"Output too long (">> \o numberText(length) \o <<" > ">>
                     \o numberText(parsed.value) \o <<")">>]

\* const max = parseInt(maxLength) || Infinity: NaN and 0 both give Infinity
evaluateLengthMax(output, maxLength) ==
  lengthMaxVerdict(Len(output), parseInt(maxLength))

\* no error
NoError == <<>>

\* output.match(/```[\s\S]*?```/g): the fenced blocks, left to right, each
\* from an opening fence to the nearest fence after it
RECURSIVE matchCodeBlocks(_, _)
matchCodeBlocks(s, from) ==
  LET open  == IndexOfFrom(s, Fence, from)
      close == IF open = 0 THEN 0 ELSE IndexOfFrom(s, Fence, open + 3)
  IN  IF open = 0 \/ close = 0 THEN <<>>
      ELSE <<SubSeq(s, open, close + 2)>> \o matchCodeBlocks(s, close + 3)

\* the end (exclusive) of the longest run of characters of class that starts at k
RECURSIVE skipRun(_, _, _)
skipRun(s, k, class) ==
  IF k <= Len(s) /\ s[k] \in class THEN skipRun(s, k + 1, class) ELSE k

\* /keyword\s+/.test(s)
keywordSpace(s, keyword) ==
  \E k \in 1..Len(s) :
    MatchesAt(s, keyword, k) /\ skipRun(s, k + Len(keyword), WhiteSpace) > k + Len(keyword)

\* /keyword\s+\w+/.test(s)
keywordName(s, keyword) ==
  \E k \in 1..Len(s) :
    /\ MatchesAt(s, keyword, k)
    /\ LET a == k + Len(keyword)
           b == skipRun(s, a, WhiteSpace)
       IN  b > a /\ skipRun(s, b, WordChars) > b

\* /keyword\s+\w+\s*\(/.test(s)
keywordNameParen(s, keyword) ==
  \E k \in 1..Len(s) :
    /\ MatchesAt(s, keyword, k)
    /\ LET a == k + Len(keyword)
           b == skipRun(s, a, WhiteSpace)
           c == skipRun(s, b, WordChars)
           d == skipRun(s, c, WhiteSpace)
       IN  b > a /\ c > b /\ d <= Len(s) /\ s[d] = "("

\* codePatterns.some(p => p.test(output))
hasCode(output) ==
  \/ keywordNameParen(output, <<"d", "e", "f">>)
  \/ keywordNameParen(output, <<"f", "u", "n", "c", "t", "i", "o", "n">>)
  \/ keywordName(output, <<"c", "l", "a", "s", "s">>)
  \/ keywordSpace(output, <<"i", "m", "p", "o", "r", "t">>)
  \/ keywordSpace(output, <<"c", "o", "n", "s", "t">>)
  \/ keywordSpace(output, <<"l", "e", "t">>)
  \/ keywordSpace(output, <<"v", "a", "r">>)

(***************************************************************************)
(* new RegExp(pattern, flags) and RegExp.prototype.test for the patterns   *)
(* the values of the model hold: literal characters, the wildcard '.',     *)
(* the quantifier '+' after a character, and an opening parenthesis that   *)
(* is never closed.  The flag i is set in both uses; the flag m changes    *)
(* only ^ and $, which these patterns do not hold.                         *)
(***************************************************************************)
\* the message of the SyntaxError new RegExp(pattern) throws, or no error
regExpError(pattern) ==
  IF \E k \in 1..Len(pattern) : pattern[k] = "+" /\ (k = 1 \/ pattern[k - 1] \in {"+", "("})
    THEN <<"Invalid regular expression: /">> \o pattern \o <<"/: Nothing to repeat">>
  ELSE IF \E k \in 1..Len(pattern) : pattern[k] = "("
    THEN <<"Invalid regular expression: /">> \o pattern \o <<"/: Unterminated group">>
  ELSE NoError

\* the atoms of a pattern: a character, and whether '+' follows it
RECURSIVE regExpAtoms(_)
regExpAtoms(pattern) ==
  IF pattern = <<>> THEN <<>>
  ELSE IF Len(pattern) >= 2 /\ pattern[2] = "+"
    THEN <<[char |-> pattern[1], plus |-> TRUE]>> \o regExpAtoms(SubSeq(pattern, 3, Len(pattern)))
  ELSE <<[char |-> pattern[1], plus |-> FALSE]>> \o regExpAtoms(Tail(pattern))

\* the atom matches the character c, letters compared without case
atomMatches(atom, c) ==
  IF atom.char = "." THEN c \notin {"\n", "\r"}
  ELSE lowerChar(atom.char) = lowerChar(c)

\* the atoms match a stretch of s that starts at k
RECURSIVE matchesAtoms(_, _, _)
matchesAtoms(atoms, s, k) ==
  IF atoms = <<>> THEN TRUE
  ELSE IF k > Len(s) THEN FALSE
  ELSE IF ~atomMatches(atoms[1], s[k]) THEN FALSE
  ELSE IF atoms[1].plus
    THEN matchesAtoms(atoms, s, k + 1) \/ matchesAtoms(Tail(atoms), s, k + 1)
  ELSE matchesAtoms(Tail(atoms), s, k + 1)

\* new RegExp(pattern, 'i').test(s), for a pattern that compiles
regExpTest(pattern, s) ==
  \E k \in 1..(Len(s) + 1) : matchesAtoms(regExpAtoms(pattern), s, k)

evaluateRegex(output, pattern) ==
  IF pattern = <<>> THEN [passed |-> TRUE, reason |-> <<"No pattern to match">>]
  ELSE IF regExpError(pattern) # NoError
    THEN [passed |-> FALSE, reason |-> <<"Invalid regex pattern: ">> \o regExpError(pattern)]
  ELSE LET matches == regExpTest(pattern, output)
       IN  [passed |-> matches,
            reason |-> IF matches THEN <<"Output matches pattern ", "\"">> \o pattern \o <<"\"">>
                                  ELSE <<"Output does not match pattern ", "\"">> \o pattern \o <<"\"">>]

\* the message of the error evaluateCode throws: new RegExp('```' + language, 'i')
\* stands outside any try
evaluateCodeError(output, language) ==
  IF matchCodeBlocks(output, 1) # <<>> /\ language # <<>>
    THEN regExpError(Fence \o language)
    ELSE NoError

\* evaluateCode(output, language), when it does not throw
evaluateCode(output, language) ==
  LET codeBlocks == matchCodeBlocks(output, 1)
      hasLang    == \E b \in 1..Len(codeBlocks) : regExpTest(Fence \o language, codeBlocks[b])
  IN  IF codeBlocks = <<>>
        THEN [passed |-> hasCode(output),
              reason |-> IF hasCode(output) THEN <<"Code detected in output">>
                                            ELSE <<"No code blocks or patterns found">>]
      ELSE IF language # <<>>
        THEN [passed |-> hasLang,
              reason |-> IF hasLang THEN language \o <<" code block found">>
                                    ELSE <<"No ">> \o language \o <<" code block found">>]
      ELSE [passed |-> TRUE,
            reason |-> <<"Found ">> \o numberText(Len(codeBlocks)) \o <<" code block(s)">>]

\* the evaluation prompt of evaluateLLM (its fixed sentences shortened)
evaluationPrompt(output, criteria) ==
  <<"CRITERIA: ">> \o criteria \o <<"\n\nRESPONSE TO EVALUATE:\n">> \o output

\* evaluateLLM once llmCall has resolved with result
evaluateLLMResolved(result) ==
  [passed |-> startsWith(toUpperCase(result.content), <<"P", "A", "S", "S">>),
   reason |-> result.content]

\* evaluateLLM once llmCall has rejected with message
evaluateLLMRejected(message) ==
  [passed |-> FALSE, reason |-> <<"LLM evaluation failed: ">> \o message]

\* evaluateCriteria awaits llmCall: the output is not empty, the kind is
\* 'llm' and a judge capability was supplied
invokesJudge(output, criteriaType, llmCall) ==
  output # <<>> /\ criteriaType = "llm" /\ llmCall

\* the message of the error evaluateCriteria throws, or no error
evaluateCriteriaError(output, criteriaType, criteriaValue) ==
  IF output # <<>> /\ criteriaType = "code" THEN evaluateCodeError(output, criteriaValue) ELSE NoError

\* evaluateCriteria without its first test, if (!output)
evaluateCriteriaUnchecked(output, criteriaType, criteriaValue) ==
  CASE criteriaType = "contains"     -> evaluateContains(output, criteriaValue)
    [] criteriaType = "not_contains" -> evaluateNotContains(output, criteriaValue)
    [] criteriaType = "regex"        -> evaluateRegex(output, criteriaValue)
    [] criteriaType = "code"         -> evaluateCode(output, criteriaValue)
    [] criteriaType = "length_min"   -> evaluateLengthMin(output, criteriaValue)
    [] criteriaType = "length_max"   -> evaluateLengthMax(output, criteriaValue)
    [] criteriaType = "llm"          -> [passed |-> FALSE, reason |-> <<"LLM evaluation not available">>]
    [] criteriaType = "always"       -> [passed |-> TRUE, reason |-> <<"Always passes">>]
    [] OTHER -> [passed |-> TRUE, reason |-> <<"No criteria specified, auto-pass">>]

\* evaluateCriteria(output, criteriaType, criteriaValue) as far as it returns
\* without awaiting the judge, for the kinds the steps of the model carry:
\* 'contains', 'not_contains', 'llm' (no judge supplied), 'always' and an
\* unknown kind
evaluateCriteria(output, criteriaType, criteriaValue) ==
  IF output = <<>> THEN [passed |-> FALSE, reason |-> <<"No output received">>]
  ELSE CASE criteriaType = "contains"     -> evaluateContains(output, criteriaValue)
         [] criteriaType = "not_contains" -> evaluateNotContains(output, criteriaValue)
         [] criteriaType = "regex"        -> evaluateRegex(output, criteriaValue)
         [] criteriaType = "code"         -> evaluateCode(output, criteriaValue)
         [] criteriaType = "length_min"   -> evaluateLengthMin(output, criteriaValue)
         [] criteriaType = "length_max"   -> evaluateLengthMax(output, criteriaValue)
         [] criteriaType = "llm"          -> [passed |-> FALSE, reason |-> <<"LLM evaluation not available">>]
         [] criteriaType = "always"       -> [passed |-> TRUE, reason |-> <<"Always passes">>]
         [] OTHER -> [passed |-> TRUE, reason |-> <<"No criteria specified, auto-pass">>]

(***************************************************************************)
(* Context Extractor (services/criteria.js, extractContext).               *)
(***************************************************************************)
\* the length above which mode 'summary' truncates
SummaryLimit == 500

\* the end (exclusive) of the greedy match of \w*\n? that starts at k
RECURSIVE SkipWord(_, _)
SkipWord(s, k) ==
  IF k <= Len(s) /\ s[k] \in WordChars THEN SkipWord(s, k + 1)
  ELSE IF k <= Len(s) /\ s[k] = "\n" THEN k + 1
  ELSE k

\* block.replace(/```\w*\n?/g, '')
RECURSIVE removeFences(_, _)
removeFences(s, from) ==
  LET at == IndexOfFrom(s, Fence, from)
  IN  IF at = 0 THEN TextFrom(s, from)
      ELSE SubSeq(s, from, at - 1) \o removeFences(s, SkipWord(s, at + 3))

\* Array.prototype.join('\n\n')
RECURSIVE joinBlankLine(_)
joinBlankLine(parts) ==
  IF parts = <<>> THEN <<>>
  ELSE IF Len(parts) = 1 THEN parts[1]
  ELSE parts[1] \o <<"\n", "\n">> \o joinBlankLine(Tail(parts))

\* the end (exclusive) of the run of newlines that starts at k
RECURSIVE SkipNewlines(_, _)
SkipNewlines(s, k) ==
  IF k <= Len(s) /\ s[k] = "\n" THEN SkipNewlines(s, k + 1) ELSE k

\* output.split(/\n\n+/)
RECURSIVE splitParagraphs(_, _)
splitParagraphs(s, from) ==
  LET at == IndexOfFrom(s, <<"\n", "\n">>, from)
  IN  IF at = 0 \/ at > Len(s) THEN <<TextFrom(s, from)>>
      ELSE <<SubSeq(s, from, at - 1)>> \o splitParagraphs(s, SkipNewlines(s, at))

\* .filter(p => p.trim())
nonBlank(parts) ==
  SelectSeq(parts, LAMBDA p : trim(p) # <<>>)

extractContext(output, mode) ==
  IF output = <<>> THEN <<>>
  ELSE CASE mode = "full" -> output
         [] mode = "code_only" ->
              LET codeBlocks == matchCodeBlocks(output, 1)
              IN  IF codeBlocks # <<>>
                    THEN joinBlankLine([k \in 1..Len(codeBlocks) |-> trim(removeFences(codeBlocks[k], 1))])
                    ELSE output
         [] mode = "last_paragraph" ->
              LET paragraphs == nonBlank(splitParagraphs(output, 1))
              IN  IF paragraphs # <<>> THEN paragraphs[Len(paragraphs)] ELSE output
         [] mode = "first_paragraph" ->
              LET paras == nonBlank(splitParagraphs(output, 1))
              IN  IF paras # <<>> THEN paras[1] ELSE output
         [] mode = "summary" ->
              IF Len(output) <= SummaryLimit THEN output
              ELSE SubSeq(output, 1, SummaryLimit) \o <<".", ".", ".">>
         [] OTHER -> output

(***************************************************************************)
(* Persistence (db/schema.js).  data.workflows, data.steps, data.runs and  *)
(* data.step_executions are the variables workflows, steps, runs and       *)
(* step_executions; every operation reads and writes the in-memory data.   *)
(* Timestamps and names are left out: no operation reads them back.        *)
(***************************************************************************)
VARIABLES workflows, steps, runs, step_executions, activeRuns, proc, events, wsServer, unhandled,
          replies, evaluatorCall, providerCall

vars == <<workflows, steps, runs, step_executions, activeRuns, proc, events, wsServer, unhandled, replies,
          evaluatorCall, providerCall>>

\* the model a step gets when the request names none
DefaultModel == "kimi-k2-instruct-0905"

\* the retry limit a step gets when the request gives none (or 0)
DefaultRetryLimit == 3

\* {...old, ...updates}
Spread(old, updates) ==
  [f \in (DOMAIN old) \cup (DOMAIN updates) |-> IF f \in DOMAIN updates THEN updates[f] ELSE old[f]]

\* Array.prototype.findIndex(x => x.id === id), 1-based; 0 for -1
findIndex(records, id) ==
  LET hits == {k \in 1..Len(records) : records[k].id = id}
  IN  IF hits = {} THEN 0 ELSE CHOOSE k \in hits : \A j \in hits : k <= j

\* db.addStep(workflowId, orderIndex, stepData), with id the uuid it draws
addStep(id, workflowId, orderIndex, stepData) ==
  [id            |-> id,
   workflow_id   |-> workflowId,
   order_index   |-> orderIndex,
   model         |-> IF stepData.model = "" THEN DefaultModel ELSE stepData.model,
   prompt        |-> stepData.prompt,
   criteria_type |-> IF stepData.criteria_type = "" THEN "always" ELSE stepData.criteria_type,
   criteria_value|-> stepData.criteria_value,
   retry_limit   |-> IF stepData.retry_limit = 0 THEN DefaultRetryLimit ELSE stepData.retry_limit,
   context_mode  |-> IF stepData.context_mode = "" THEN "full" ELSE stepData.context_mode]

\* Array.prototype.sort((a, b) => a.order_index - b.order_index), stable
RECURSIVE sortByOrderIndex(_)
sortByOrderIndex(list) ==
  IF list = <<>> THEN <<>>
  ELSE LET least == CHOOSE k \in 1..Len(list) :
                      /\ \A j \in 1..Len(list) : list[k].order_index <= list[j].order_index
                      /\ \A j \in 1..(k - 1) : list[j].order_index > list[k].order_index
       IN  <<list[least]>> \o sortByOrderIndex(SubSeq(list, 1, least - 1) \o SubSeq(list, least + 1, Len(list)))

\* db.getWorkflowSteps(workflowId)
getWorkflowSteps(allSteps, workflowId) ==
  sortByOrderIndex(SelectSeq(allSteps, LAMBDA st : st.workflow_id = workflowId))

\* db.createRun(workflowId), with id the uuid it draws
createRun(allRuns, id, workflowId) ==
  Append(allRuns, [id |-> id, workflow_id |-> workflowId, status |-> "running",
                   total_cost |-> 0, total_tokens |-> 0])

\* db.updateRun(id, updates): a run that is no longer stored is left alone
updateRun(allRuns, id, updates) ==
  LET index == findIndex(allRuns, id)
  IN  IF index = 0 THEN allRuns
      ELSE [allRuns EXCEPT ![index] = Spread(@, updates)]

\* db.createStepExecution(runId, stepId); the uuid it draws is the record's position
createStepExecution(executions, runId, stepId) ==
  Append(executions, [id |-> Len(executions) + 1, run_id |-> runId, step_id |-> stepId,
                      status |-> "pending", attempts |-> 0, input_context |-> NULL,
                      output |-> NULL, error |-> NULL, tokens_used |-> 0, cost |-> 0])

\* steps.forEach(step => db.createStepExecution(run.id, step.id))
RECURSIVE createStepExecutions(_, _, _)
createStepExecutions(executions, runId, list) ==
  IF list = <<>> THEN executions
  ELSE createStepExecutions(createStepExecution(executions, runId, list[1].id), runId, Tail(list))

\* what db.getStepExecution returns for null: a record with no id (ids start at 1)
NoStepExecution == [id |-> 0]

\* getStepExecution that looks the record up by its step alone
getStepExecutionOfAnyRun(executions, runId, stepId) ==
  LET hits == {k \in 1..Len(executions) : executions[k].step_id = stepId}
  IN  IF hits = {} THEN NoStepExecution ELSE executions[CHOOSE k \in hits : \A j \in hits : k <= j]

\* db.getStepExecution(runId, stepId): the first matching record, or null
getStepExecution(executions, runId, stepId) ==
  LET hits == {k \in 1..Len(executions) : executions[k].run_id = runId /\ executions[k].step_id = stepId}
  IN  IF hits = {} THEN NoStepExecution ELSE executions[CHOOSE k \in hits : \A j \in hits : k <= j]

\* db.updateStepExecution(id, updates)
updateStepExecution(executions, id, updates) ==
  LET index == findIndex(executions, id)
  IN  IF index = 0 THEN executions
      ELSE [executions EXCEPT ![index] = Spread(@, updates)]

(***************************************************************************)
(* Run Execution Engine (services/executor.js, class WorkflowExecutor).    *)
(*                                                                         *)
(* JavaScript runs one callback at a time, so the code between two awaits  *)
(* is one step of the model.  Such a stretch of code works on a record m:  *)
(* the persisted data, the active-run registry, the events emitted so far, *)
(* the locals p of the executeSteps call of the run, and whether an        *)
(* exception is propagating (thrown, error).  A client's send may raise,   *)
(* so a stretch of code has several outcomes: every operator below gives   *)
(* the set of records it can end in.                                       *)
(***************************************************************************)
\* the message of the error a client's send raises
SendError == <<"send failed">>

\* the message of the TypeError raised by stepExec.id when stepExec is null
NullStepExecutionError == <<"Cannot read properties of null (reading 'id')">>

\* no provider call in flight
NoCall == [prompt |-> NULL, model |-> "", context |-> NULL, content |-> NULL]

\* F applied to every outcome in M in which no exception is propagating
Then(M, F(_)) ==
  UNION {IF m.thrown THEN {m} ELSE F(m) : m \in M}

\* Map.prototype.set
mapSet(map, key, value) ==
  [k \in (DOMAIN map) \cup {key} |-> IF k = key THEN value ELSE map[k]]

\* Map.prototype.delete
mapDelete(map, key) ==
  [k \in (DOMAIN map) \ {key} |-> map[k]]

\* client.send(message) may raise: in the outer catch handler always, during
\* executeSteps as long as fewer than MaxSendFailures sends of the run have raised
sendMayRaise(m) ==
  m.p.pc = "rejected" \/ m.p.sendFailures < MaxSendFailures

\* broadcast(runId, event): without a server nothing is sent; with one, the
\* message goes to every open client, and a client's send may raise.  The
\* event is recorded with what became of it.
broadcast(m, runId, event) ==
  IF wsServer = "null"
    THEN {[m EXCEPT !.events = Append(@, Spread(event, [runId |-> runId, send |-> "none"]))]}
    ELSE {[m EXCEPT !.events = Append(@, Spread(event, [runId |-> runId, send |-> "sent"]))]}
         \cup (IF sendMayRaise(m)
                 THEN {[m EXCEPT !.events = Append(@, Spread(event, [runId |-> runId, send |-> "raised"])),
                                 !.thrown = TRUE, !.error = SendError,
                                 !.p.sendFailures = @ + 1]}
                 ELSE {})

\* completeRun(runId, totalCost, totalTokens)
completeRun(m, runId, totalCost, totalTokens) ==
  LET m1 == [m EXCEPT !.runs = updateRun(@, runId, [status |-> "completed", total_cost |-> totalCost,
                                                    total_tokens |-> totalTokens]),
                      !.activeRuns = mapDelete(@, runId)]
  IN  broadcast(m1, runId, [type |-> "run_completed", status |-> "completed",
                            totalCost |-> totalCost, totalTokens |-> totalTokens])

\* failRun(runId, error, totalCost = 0, totalTokens = 0)
failRun(m, runId, error, totalCost, totalTokens) ==
  LET m1 == [m EXCEPT !.runs = updateRun(@, runId, [status |-> "failed", total_cost |-> totalCost,
                                                    total_tokens |-> totalTokens]),
                      !.activeRuns = mapDelete(@, runId)]
  IN  broadcast(m1, runId, [type |-> "run_completed", status |-> "failed", error |-> error,
                            totalCost |-> totalCost, totalTokens |-> totalTokens])

\* the prompt of an attempt: {context} is substituted when there is a previous context
renderPrompt(prompt, previousContext) ==
  IF previousContext # <<>> /\ includes(prompt, ContextPlaceholder)
    THEN replaceAllPattern(prompt, ContextPlaceholder, previousContext)
    ELSE prompt

\* const contextToPass = prompt.includes(previousContext) ? '' : previousContext
contextToPass(prompt, previousContext) ==
  IF includes(prompt, previousContext) THEN <<>> ELSE previousContext

\* UnboundService.call: the content of the user message it posts
fullPrompt(prompt, context) ==
  IF context # <<>>
    THEN <<"Context from previous step:\n">> \o context \o <<"\n\n---\n\n">> \o prompt
    ELSE prompt

\* the last output handed on as it is, whatever the context mode
nextContextUnextracted(lastOutput, step) ==
  lastOutput

\* previousContext = extractContext(lastOutput, step.context_mode)
nextContext(lastOutput, step) ==
  extractContext(lastOutput, step.context_mode)

\* a loop whose body is never entered
attemptsRemainNever(passed, attempts, step) ==
  FALSE

\* while (!passed && attempts < step.retry_limit), and the same test before the delay
attemptsRemain(passed, attempts, step) ==
  ~passed /\ attempts < step.retry_limit

\* the for loop without the `return`: it goes on to the next step after a failed one
stopsAfterNever(passed) ==
  FALSE

\* the statement `return` after failRun: a failed step ends executeSteps
stopsAfter(passed) ==
  ~passed

\* the head of an iteration of the for loop: the step's record is marked running
startStep(m, runId, i) ==
  LET step     == m.p.steps[i]
      stepExec == getStepExecution(m.step_executions, runId, step.id)
  IN  IF stepExec.id = 0
        THEN {[m EXCEPT !.p.i = i, !.thrown = TRUE, !.error = NullStepExecutionError]}
        ELSE LET m1 == [m EXCEPT !.p.i = i, !.p.stepExec = stepExec.id,
                                 !.step_executions = updateStepExecution(@, stepExec.id,
                                     [status |-> "running", input_context |-> m.p.previousContext])]
             IN  broadcast(m1, runId, [type |-> "step_started", stepId |-> step.id, stepIndex |-> i - 1])

\* let passed = false; let lastOutput = ''; ... let stepTokens = 0
resetLocals(m) ==
  [m EXCEPT !.p.passed = FALSE, !.p.lastOutput = <<>>, !.p.lastError = <<>>,
            !.p.attempts = 0, !.p.stepCost = 0, !.p.stepTokens = 0]

\* the head of an attempt, up to the await of this.unbound.call
beginAttempt(m, runId) ==
  LET step == m.p.steps[m.p.i]
      m1   == [m EXCEPT !.p.attempts = @ + 1]
  IN  Then(broadcast(m1, runId, [type |-> "step_attempt", stepId |-> step.id,
                                 attempt |-> m1.p.attempts, maxAttempts |-> step.retry_limit]),
           LAMBDA x :
             LET prompt  == renderPrompt(step.prompt, x.p.previousContext)
                 context == contextToPass(prompt, x.p.previousContext)
             IN  {[x EXCEPT !.p.pc = "calling",
                            !.p.call = [prompt |-> prompt, model |-> step.model, context |-> context,
                                        content |-> fullPrompt(prompt, context)],
                            !.p.calls[x.p.i] = @ + 1]})

RECURSIVE forLoop(_, _, _)

\* after the while loop: the step's record gets its final fields; a passed
\* step hands its context on, a failed one fails the run
afterWhile(m, runId) ==
  LET p    == m.p
      step == p.steps[p.i]
      m1   == [m EXCEPT !.p.totalCost = @ + p.stepCost,
                        !.p.totalTokens = @ + p.stepTokens,
                        !.step_executions = updateStepExecution(@, p.stepExec,
                            [status      |-> IF p.passed THEN "passed" ELSE "failed",
                             attempts    |-> p.attempts,
                             output      |-> p.lastOutput,
                             error       |-> IF p.passed THEN NULL ELSE p.lastError,
                             tokens_used |-> p.stepTokens,
                             cost        |-> p.stepCost])]
  IN  IF ~stopsAfter(p.passed)
        THEN LET m2 == [m1 EXCEPT !.p.previousContext = nextContext(p.lastOutput, step)]
             IN  Then(broadcast(m2, runId, [type |-> "step_completed", stepId |-> step.id,
                                            stepIndex |-> p.i - 1, passed |-> TRUE]),
                      LAMBDA x : forLoop(x, runId, p.i + 1))
        ELSE Then(broadcast(m1, runId, [type |-> "step_completed", stepId |-> step.id,
                                        stepIndex |-> p.i - 1, passed |-> FALSE, error |-> p.lastError]),
                  LAMBDA x : Then(failRun(x, runId, <<"Step failed: ">> \o p.lastError,
                                          x.p.totalCost, x.p.totalTokens),
                                  LAMBDA y : {[y EXCEPT !.p.pc = "done"]}))

\* the test of the while loop
whileLoop(m, runId) ==
  IF attemptsRemain(m.p.passed, m.p.attempts, m.p.steps[m.p.i])
    THEN beginAttempt(m, runId)
    ELSE afterWhile(m, runId)

\* for (let i = 0; i < steps.length; i++) { ... } this.completeRun(...)
forLoop(m, runId, i) ==
  IF i > Len(m.p.steps)
    THEN Then(completeRun(m, runId, m.p.totalCost, m.p.totalTokens),
              LAMBDA x : {[x EXCEPT !.p.pc = "done"]})
    ELSE Then(startStep(m, runId, i), LAMBDA x : whileLoop(resetLocals(x), runId))

\* the end of an attempt: the delay before the next one, or the end of the loop
afterAttempt(m, runId) ==
  IF attemptsRemain(m.p.passed, m.p.attempts, m.p.steps[m.p.i])
    THEN {[m EXCEPT !.p.pc = "delay"]}
    ELSE whileLoop(m, runId)

\* catch (error) { lastError = error.message; broadcast step_error }
catchAttempt(m, runId) ==
  broadcast([m EXCEPT !.thrown = FALSE, !.p.lastError = m.error], runId,
            [type |-> "step_error", stepId |-> m.p.steps[m.p.i].id, error |-> m.error])

\* llmEvaluator = (evalPrompt) => this.unbound.call(evalPrompt, 'kimi-k2-instruct-0905'):
\* the provider call the judge capability makes; the model evaluateLLM passes
\* as second argument is not taken
llmEvaluator(evalPrompt, model) ==
  [prompt |-> evalPrompt, model |-> "kimi-k2-instruct-0905", context |-> <<>>,
   content |-> fullPrompt(evalPrompt, <<>>)]

\* the try block from the verdict on: 'step_evaluated', then the verdict is taken
evaluated(m, runId, evaluation) ==
  LET step  == m.p.steps[m.p.i]
      tried == Then(broadcast(m, runId, [type |-> "step_evaluated", stepId |-> step.id,
                                         passed |-> evaluation.passed]),
                    LAMBDA y : {IF evaluation.passed
                                  THEN [y EXCEPT !.p.passed = TRUE,
                                                 !.p.passing[m.p.i] = m.p.lastOutput]
                                  ELSE [y EXCEPT !.p.lastError = evaluation.reason]})
  IN  Then(UNION {IF x.thrown THEN catchAttempt(x, runId) ELSE {x} : x \in tried},
           LAMBDA x : afterAttempt(x, runId))

\* the try block after the await: the provider's result is recorded and
\* 'step_response' emitted; an 'llm' criterion then awaits the judge, any
\* other is evaluated and the verdict is taken, unless evaluateCriteria
\* throws, which the catch block of the attempt takes like a provider failure
attemptReturned(m, runId, result) ==
  LET step       == m.p.steps[m.p.i]
      judged     == invokesJudge(result.content, step.criteria_type, step.criteria_type = "llm")
      evaluation == evaluateCriteria(result.content, step.criteria_type, step.criteria_value)
      raised     == evaluateCriteriaError(result.content, step.criteria_type, step.criteria_value)
      m1 == [m EXCEPT !.p.call = NoCall,
                      !.p.lastOutput = result.content,
                      !.p.stepCost = @ + result.cost,
                      !.p.stepTokens = @ + result.tokens,
                      !.p.satisfied[m.p.i] = @ \/ (~judged /\ raised = NoError /\ evaluation.passed),
                      !.p.spentTokens[m.p.i] = @ + result.tokens,
                      !.p.spentCost[m.p.i] = @ + result.cost,
                      !.p.history = Append(@, [raised |-> FALSE, result |-> result, message |-> <<>>])]
  IN  UNION {IF x.thrown
               THEN Then(catchAttempt(x, runId), LAMBDA y : afterAttempt(y, runId))
             ELSE IF judged
               THEN {[x EXCEPT !.p.pc = "judging",
                               !.p.call = llmEvaluator(evaluationPrompt(result.content, step.criteria_value),
                                                       "gpt-4o-mini")]}
             ELSE IF raised # NoError
               THEN Then(catchAttempt([x EXCEPT !.error = raised], runId),
                         LAMBDA y : afterAttempt(y, runId))
             ELSE evaluated(x, runId, evaluation)
             : x \in broadcast(m1, runId, [type |-> "step_response", stepId |-> step.id,
                                           tokens |-> result.tokens, cost |-> result.cost])}

\* the await of llmCall in evaluateLLM resolves, were the usage of the
\* judge's result added to the step's
judgeReturnedCounted(m, runId, result) ==
  LET evaluation == evaluateLLMResolved(result)
  IN  evaluated([m EXCEPT !.p.call = NoCall, !.p.satisfied[m.p.i] = @ \/ evaluation.passed,
                          !.p.stepTokens = @ + result.tokens, !.p.stepCost = @ + result.cost,
                          !.p.judgeTokens = @ + result.tokens, !.p.judgeCost = @ + result.cost],
                runId, evaluation)

\* the await of llmCall in evaluateLLM resolves: of the result only the
\* content is read
judgeReturned(m, runId, result) ==
  LET evaluation == evaluateLLMResolved(result)
  IN  evaluated([m EXCEPT !.p.call = NoCall, !.p.satisfied[m.p.i] = @ \/ evaluation.passed,
                          !.p.judgeTokens = @ + result.tokens, !.p.judgeCost = @ + result.cost],
                runId, evaluation)

\* the await of llmCall in evaluateLLM rejects: evaluateLLM catches it
judgeRaised(m, runId, message) ==
  evaluated([m EXCEPT !.p.call = NoCall], runId, evaluateLLMRejected(message))

\* no result: the call raised
NoResult == [content |-> <<>>, tokens |-> 0, cost |-> 0]

\* the await of this.unbound.call raises
attemptRaised(m, runId, message) ==
  LET m1 == [m EXCEPT !.p.call = NoCall, !.p.raises[m.p.i] = @ + 1, !.error = message,
                      !.p.history = Append(@, [raised |-> TRUE, result |-> NoResult, message |-> message])]
  IN  Then(catchAttempt(m1, runId), LAMBDA x : afterAttempt(x, runId))

\* the locals of executeSteps(runId, steps) as it is called, with the history
\* of the call: per step the provider calls made (calls), those that raised
\* (raises), whether a response met the criterion (satisfied), the output of
\* the attempt that set passed (passing), the sends that raised (sendFailures),
\* the tokens and cost of the responses received (spentTokens, spentCost),
\* the outcomes of the provider calls in order (history), and the tokens and
\* cost of the results the judge's calls gave (judgeTokens, judgeCost)
newExecution(list) ==
  [pc |-> "started", steps |-> list, i |-> 0, previousContext |-> <<>>,
   totalCost |-> 0, totalTokens |-> 0, stepExec |-> 0,
   passed |-> FALSE, lastOutput |-> <<>>, lastError |-> <<>>, attempts |-> 0,
   stepCost |-> 0, stepTokens |-> 0, call |-> NoCall, error |-> <<>>,
   calls |-> [k \in 1..Len(list) |-> 0], raises |-> [k \in 1..Len(list) |-> 0],
   satisfied |-> [k \in 1..Len(list) |-> FALSE],
   passing |-> [k \in 1..Len(list) |-> NULL], sendFailures |-> 0,
   spentTokens |-> [k \in 1..Len(list) |-> 0], spentCost |-> [k \in 1..Len(list) |-> 0],
   history |-> <<>>, judgeTokens |-> 0, judgeCost |-> 0]

\* executeSteps(runId, steps) up to its first await
executeSteps(m, runId) ==
  forLoop(m, runId, 1)

\* execute without the test steps.length === 0
executeErrorIgnoringSteps(workflowId) ==
  IF workflowId \notin workflows THEN <<"Workflow not found">> ELSE NoError

\* the message of the error execute(workflowId) throws before it creates anything
executeError(workflowId) ==
  IF workflowId \notin workflows THEN <<"Workflow not found">>
  ELSE IF getWorkflowSteps(steps, workflowId) = <<>> THEN <<"Workflow has no steps">>
  ELSE NoError

\* execute(workflowId) once the workflow and its steps are found
execute(workflowId, runId) ==
  LET list == getWorkflowSteps(steps, workflowId)
  IN  executeSteps([runs            |-> createRun(runs, runId, workflowId),
                    step_executions |-> createStepExecutions(step_executions, runId, list),
                    activeRuns      |-> mapSet(activeRuns, runId, [workflowId |-> workflowId, status |-> "running"]),
                    events          |-> events,
                    p               |-> newExecution(list),
                    thrown          |-> FALSE,
                    error           |-> <<>>], runId)

(***************************************************************************)
(* Inputs: the step definitions a client can store, the results the        *)
(* completion provider can give, and the run ids uuidv4 can draw.          *)
(***************************************************************************)
\* steps[] entries of a POST /api/workflows body; '' and 0 stand for a field left out
StepInputs ==
  { [model |-> "", prompt |-> <<"q", "a">>, criteria_type |-> "", criteria_value |-> <<>>,
     retry_limit |-> 0, context_mode |-> "first_paragraph"],
    [model |-> "kimi-k2p5", prompt |-> ContextPlaceholder \o <<"q">> \o ContextPlaceholder,
     criteria_type |-> "contains", criteria_value |-> <<"A">>,
     retry_limit |-> 1, context_mode |-> "code_only"],
    [model |-> "", prompt |-> <<"q">>, criteria_type |-> "contains", criteria_value |-> <<"A">>,
     retry_limit |-> -1, context_mode |-> "last_paragraph"] }

\* the workflows data.json can hold: any sequence of 1..MaxSteps step definitions
WorkflowInputs ==
  UNION {[1..n -> StepInputs] : n \in 1..MaxSteps}

\* what UnboundService.call resolves to: content, tokens.total and cost
Responses ==
  { [content |-> <<>>, tokens |-> 1, cost |-> 0],
    [content |-> <<"a", "\n", "\n">> \o Fence \o <<"x", "\n", "$", "&">> \o Fence, tokens |-> 5, cost |-> 3] }

\* the messages of the errors UnboundService.call rejects with
ProviderErrors == {<<"Request failed with status code 401">>}

RunIds == {"r1"}

WorkflowIds == {"w1"}

\* the steps of a workflow as POST /api/workflows stores them
\* the results the provider can give to the judge's call
JudgeResponses ==
  {[content |-> <<"P", "A", "S", "S">>, tokens |-> 2, cost |-> 1],
   [content |-> <<"p", "a", "s", "s", ".">>, tokens |-> 2, cost |-> 1],
   [content |-> <<"F", "A", "I", "L">>, tokens |-> 2, cost |-> 1]}

\* steps[] entries with an 'llm' criterion, the model left out or named, and
\* one with a 'code' criterion whose language is 'a++'
JudgedStepInputs ==
  {[model |-> "", prompt |-> <<"q">>, criteria_type |-> "llm", criteria_value |-> <<"o", "k">>,
    retry_limit |-> 2, context_mode |-> ""],
   [model |-> "kimi-k2p5", prompt |-> <<"q">>, criteria_type |-> "llm", criteria_value |-> <<"o", "k">>,
    retry_limit |-> 1, context_mode |-> ""],
   [model |-> "", prompt |-> <<"q">>, criteria_type |-> "code", criteria_value |-> <<"a", "+", "+">>,
    retry_limit |-> 1, context_mode |-> ""]}

storedSteps(workflowId, inputs) ==
  [k \in 1..Len(inputs) |-> addStep(k, workflowId, k - 1, inputs[k])]

\* no call of evaluateCriteria from outside the engine
NoEvaluation == [pc |-> "none"]

\* let lastError = null
NoHttpError == [response |-> FALSE, status |-> 0, code |-> "", message |-> <<>>, apiMessage |-> <<>>]

\* the locals of UnboundService.call as its first request is made (attempt,
\* lastError; pc tells whether a request or a retry delay is pending), with
\* the requests of the run answered so far (answered) and the last of their
\* outcomes (last)
NoRequests ==
  [attempt |-> 1, pc |-> "requesting", lastError |-> NoHttpError, answered |-> 0,
   last |-> [success |-> FALSE, error |-> NoHttpError]]

Init ==
  /\ wsServer \in {"null", "clients"}
  /\ workflows = WorkflowIds
  /\ steps \in {storedSteps("w1", inputs) : inputs \in WorkflowInputs}
  /\ runs = <<>>
  /\ step_executions = <<>>
  /\ activeRuns = [r \in {} |-> 0]
  /\ proc = [r \in {} |-> 0]
  /\ events = <<>>
  /\ unhandled = {}
  /\ replies = {}
  /\ evaluatorCall = NoEvaluation
  /\ providerCall = NoRequests

\* the data, registry and events as they stand, with the locals of run runId
current(runId) ==
  [runs |-> runs, step_executions |-> step_executions, activeRuns |-> activeRuns,
   events |-> events, p |-> proc[runId], thrown |-> FALSE, error |-> <<>>]

\* the outcome m of a stretch of code of run runId becomes the state; an
\* exception that left executeSteps rejects its promise
CommitRun(m, runId) ==
  /\ runs' = m.runs
  /\ step_executions' = m.step_executions
  /\ activeRuns' = m.activeRuns
  /\ events' = m.events
  /\ proc' = mapSet(proc, runId, IF m.thrown THEN [m.p EXCEPT !.pc = "rejected", !.error = m.error]
                                              ELSE m.p)
  /\ UNCHANGED <<workflows, steps, wsServer, unhandled, evaluatorCall>>

\* the same where the provider call is taken as a whole
Commit(m, runId) ==
  /\ CommitRun(m, runId)
  /\ UNCHANGED providerCall

\* POST /api/runs/start/:workflowId: execute(workflowId) returns the run id,
\* and the route replies 201
ExecuteRun(workflowId, runId) ==
  /\ executeError(workflowId) = NoError
  /\ runId \notin DOMAIN proc
  /\ \E m \in execute(workflowId, runId) : Commit(m, runId)
  /\ replies' = replies \cup {[workflowId |-> workflowId, status |-> 201,
                               runId |-> runId, error |-> NoError]}

\* the same request while no run is under way
Execute(workflowId) ==
  \E runId \in RunIds : ExecuteRun(workflowId, runId)

\* POST /api/runs/start/:workflowId: execute(workflowId) throws, and the route
\* replies 500 with the message
ExecuteFails(workflowId) ==
  /\ executeError(workflowId) # NoError
  /\ replies' = replies \cup {[workflowId |-> workflowId, status |-> 500,
                               runId |-> "", error |-> executeError(workflowId)]}
  /\ UNCHANGED <<workflows, steps, runs, step_executions, activeRuns, proc, events, wsServer, unhandled,
                 evaluatorCall, providerCall>>

\* the provider call of a run resolves
ProviderReturns(runId) ==
  /\ runId \in DOMAIN proc
  /\ proc[runId].pc = "calling"
  /\ \E result \in Responses :
       \E m \in attemptReturned(current(runId), runId, result) : Commit(m, runId)
  /\ UNCHANGED replies

\* the provider call of a run rejects
ProviderRaises(runId) ==
  /\ runId \in DOMAIN proc
  /\ proc[runId].pc = "calling"
  /\ \E message \in ProviderErrors :
       \E m \in attemptRaised(current(runId), runId, message) : Commit(m, runId)
  /\ UNCHANGED replies

\* the judge call of a run resolves
JudgeReturns(runId) ==
  /\ runId \in DOMAIN proc
  /\ proc[runId].pc = "judging"
  /\ \E result \in JudgeResponses :
       \E m \in judgeReturned(current(runId), runId, result) : Commit(m, runId)
  /\ UNCHANGED replies

\* the judge call of a run rejects
JudgeRaises(runId) ==
  /\ runId \in DOMAIN proc
  /\ proc[runId].pc = "judging"
  /\ \E message \in ProviderErrors :
       \E m \in judgeRaised(current(runId), runId, message) : Commit(m, runId)
  /\ UNCHANGED replies

\* the one-second delay between two attempts is over
DelayElapsed(runId) ==
  /\ runId \in DOMAIN proc
  /\ proc[runId].pc = "delay"
  /\ \E m \in whileLoop(current(runId), runId) : Commit(m, runId)
  /\ UNCHANGED replies

\* .catch(error => { this.failRun(run.id, error.message) }); an exception
\* raised in the handler is an unhandled rejection
CatchHandler(runId) ==
  /\ runId \in DOMAIN proc
  /\ proc[runId].pc = "rejected"
  /\ \E m \in failRun(current(runId), runId, proc[runId].error, 0, 0) :
       /\ runs' = m.runs
       /\ step_executions' = m.step_executions
       /\ activeRuns' = m.activeRuns
       /\ events' = m.events
       /\ proc' = [proc EXCEPT ![runId].pc = "done"]
       /\ unhandled' = IF m.thrown THEN unhandled \cup {runId} ELSE unhandled
       /\ UNCHANGED <<workflows, steps, wsServer, replies, evaluatorCall, providerCall>>

Next ==
  \/ \E workflowId \in WorkflowIds : Execute(workflowId)
  \/ \E runId \in RunIds : ProviderReturns(runId)
  \/ \E runId \in RunIds : ProviderRaises(runId)
  \/ \E runId \in RunIds : DelayElapsed(runId)
  \/ \E runId \in RunIds : CatchHandler(runId)

Spec == Init /\ [][Next]_vars

(***************************************************************************)
(* Runs of workflows whose steps carry an 'llm' criterion (the evaluator   *)
(* awaits the judge's provider call) or a 'code' criterion with a language *)
(* (the evaluator compiles a pattern from it).                             *)
(***************************************************************************)
InitJudge ==
  /\ wsServer \in {"null", "clients"}
  /\ workflows = WorkflowIds
  /\ steps \in {storedSteps("w1", inputs) : inputs \in [1..1 -> JudgedStepInputs]}
  /\ runs = <<>>
  /\ step_executions = <<>>
  /\ activeRuns = [r \in {} |-> 0]
  /\ proc = [r \in {} |-> 0]
  /\ events = <<>>
  /\ unhandled = {}
  /\ replies = {}
  /\ evaluatorCall = NoEvaluation
  /\ providerCall = NoRequests

NextJudge ==
  \/ \E workflowId \in WorkflowIds : Execute(workflowId)
  \/ \E runId \in RunIds : ProviderReturns(runId)
  \/ \E runId \in RunIds : ProviderRaises(runId)
  \/ \E runId \in RunIds : JudgeReturns(runId)
  \/ \E runId \in RunIds : JudgeRaises(runId)
  \/ \E runId \in RunIds : DelayElapsed(runId)
  \/ \E runId \in RunIds : CatchHandler(runId)

SpecJudge == InitJudge /\ [][NextJudge]_vars

(***************************************************************************)
(* The Criteria Evaluator on its own: one call of evaluateCriteria with    *)
(* arguments drawn from small sets, with or without a judge capability.    *)
(***************************************************************************)
\* the nine kinds of the switch, an unknown kind, and '' for a kind left out
CriteriaKinds ==
  {"contains", "not_contains", "regex", "json", "code", "length_min", "length_max", "llm", "always",
   "custom", ""}

\* the kinds evaluateCriteria is modelled for on an output that is not empty
ModelledKinds ==
  {"contains", "not_contains", "regex", "code", "length_min", "length_max", "llm", "always", "custom", ""}

EvaluatorOutputs ==
  {<<>>, <<"a">>, <<"A", "b">>, <<"l", "e", "t", " ", "x">>,
   Fence \o <<"A", "b", "\n", "x">> \o Fence}

EvaluatorValues ==
  {<<>>, <<"a">>, <<"a", "B">>, <<"5">>, <<"1">>, <<"0">>, <<"-", "1">>, <<" ", "0", "x", "1", "0", "k">>,
   <<"(">>, <<"a", "+", "+">>, <<".", "+">>}

\* no verdict yet
NoVerdict == [passed |-> FALSE, reason |-> NULL]

InitEvaluate ==
  /\ wsServer = "null"
  /\ workflows = {}
  /\ steps = <<>>
  /\ runs = <<>>
  /\ step_executions = <<>>
  /\ activeRuns = [r \in {} |-> 0]
  /\ proc = [r \in {} |-> 0]
  /\ events = <<>>
  /\ unhandled = {}
  /\ replies = {}
  /\ \E output \in EvaluatorOutputs, criteriaType \in CriteriaKinds,
        criteriaValue \in EvaluatorValues, llmCall \in BOOLEAN :
       /\ providerCall = NoRequests
       /\ output = <<>> \/ criteriaType \in ModelledKinds
       /\ evaluatorCall = [pc |-> "called", output |-> output, criteriaType |-> criteriaType,
                        criteriaValue |-> criteriaValue, llmCall |-> llmCall,
                        judge |-> NoCall, verdict |-> NoVerdict, error |-> NoError]

\* evaluateCriteria runs up to its return, to the await of llmCall, or to
\* the exception that rejects its promise
Evaluate ==
  /\ evaluatorCall.pc = "called"
  /\ evaluatorCall' =
       IF invokesJudge(evaluatorCall.output, evaluatorCall.criteriaType, evaluatorCall.llmCall)
         THEN [evaluatorCall EXCEPT !.pc = "judging",
                                 !.judge = [NoCall EXCEPT !.prompt = evaluationPrompt(evaluatorCall.output,
                                                                                     evaluatorCall.criteriaValue),
                                                          !.model = "gpt-4o-mini"]]
       ELSE IF evaluateCriteriaError(evaluatorCall.output, evaluatorCall.criteriaType,
                                     evaluatorCall.criteriaValue) # NoError
         THEN [evaluatorCall EXCEPT !.pc = "raised",
                                 !.error = evaluateCriteriaError(evaluatorCall.output,
                                                                 evaluatorCall.criteriaType,
                                                                 evaluatorCall.criteriaValue)]
         ELSE [evaluatorCall EXCEPT !.pc = "returned",
                                 !.verdict = evaluateCriteria(evaluatorCall.output, evaluatorCall.criteriaType,
                                                              evaluatorCall.criteriaValue)]
  /\ UNCHANGED <<workflows, steps, runs, step_executions, activeRuns, proc, events, wsServer, unhandled,
                 replies, providerCall>>

\* llmCall resolves
JudgeResolves ==
  /\ evaluatorCall.pc = "judging"
  /\ \E result \in JudgeResponses :
       evaluatorCall' = [evaluatorCall EXCEPT !.pc = "returned", !.verdict = evaluateLLMResolved(result)]
  /\ UNCHANGED <<workflows, steps, runs, step_executions, activeRuns, proc, events, wsServer, unhandled,
                 replies, providerCall>>

\* llmCall rejects
JudgeRejects ==
  /\ evaluatorCall.pc = "judging"
  /\ \E message \in ProviderErrors :
       evaluatorCall' = [evaluatorCall EXCEPT !.pc = "returned", !.verdict = evaluateLLMRejected(message)]
  /\ UNCHANGED <<workflows, steps, runs, step_executions, activeRuns, proc, events, wsServer, unhandled,
                 replies, providerCall>>

NextEvaluate ==
  \/ Evaluate
  \/ JudgeResolves
  \/ JudgeRejects

SpecEvaluate == InitEvaluate /\ [][NextEvaluate]_vars

(***************************************************************************)
(* Two runs under way at once, of the same workflow or of two workflows    *)
(* of one step each: the callbacks of the two runs interleave freely.      *)
(* Either no transport is attached and two workflows are stored, or        *)
(* clients are connected and one workflow of a single attempt is stored.   *)
(***************************************************************************)
ConcurrentRunIds == {"r1", "r2"}

ConcurrentWorkflowIds == {"w1", "w2"}

\* a step that is retried once when its output lacks an 'a', and a step
\* that passes whatever its output
ConcurrentStepInputs ==
  {[model |-> "", prompt |-> <<"q">>, criteria_type |-> "contains", criteria_value |-> <<"A">>,
    retry_limit |-> 2, context_mode |-> "last_paragraph"],
   [model |-> "kimi-k2p5", prompt |-> <<"q">>, criteria_type |-> "", criteria_value |-> <<>>,
    retry_limit |-> 1, context_mode |-> ""]}

InitConcurrent ==
  /\ \/ /\ wsServer = "null"
        /\ workflows = ConcurrentWorkflowIds
        /\ steps \in {<<addStep(1, "w1", 0, a), addStep(2, "w2", 0, b)>> :
                        a \in ConcurrentStepInputs, b \in ConcurrentStepInputs}
     \/ /\ wsServer = "clients"
        /\ workflows = {"w1"}
        /\ steps \in {<<addStep(1, "w1", 0, a)>> : a \in {x \in ConcurrentStepInputs : x.retry_limit = 1}}
  /\ runs = <<>>
  /\ step_executions = <<>>
  /\ activeRuns = [r \in {} |-> 0]
  /\ proc = [r \in {} |-> 0]
  /\ events = <<>>
  /\ unhandled = {}
  /\ replies = {}
  /\ evaluatorCall = NoEvaluation
  /\ providerCall = NoRequests

NextConcurrent ==
  \/ \E workflowId \in ConcurrentWorkflowIds, runId \in ConcurrentRunIds : ExecuteRun(workflowId, runId)
  \/ \E runId \in ConcurrentRunIds : ProviderReturns(runId)
  \/ \E runId \in ConcurrentRunIds : ProviderRaises(runId)
  \/ \E runId \in ConcurrentRunIds : DelayElapsed(runId)
  \/ \E runId \in ConcurrentRunIds : CatchHandler(runId)

SpecConcurrent == InitConcurrent /\ [][NextConcurrent]_vars

(***************************************************************************)
(* The run route under every request: the workflow is stored with steps    *)
(* (w1), stored without steps (w2) or not stored (w0).                      *)
(***************************************************************************)
\* records.filter(r => r.workflow_id !== id)
withoutWorkflow(records, id) ==
  SelectSeq(records, LAMBDA r : r.workflow_id # id)

\* DELETE /api/workflows/:id: db.deleteWorkflow(id) drops the workflow, its
\* steps and its runs; an id that is not stored changes nothing (404)
DeleteWorkflow(id) ==
  /\ workflows' = workflows \ {id}
  /\ steps' = withoutWorkflow(steps, id)
  /\ runs' = withoutWorkflow(runs, id)
  /\ UNCHANGED <<step_executions, activeRuns, proc, events, wsServer, unhandled, replies, evaluatorCall, providerCall>>

\* what getRunStatus returns for a run id the registry does not hold
NoRunStatus == [workflowId |-> "", status |-> "null"]

\* getRunStatus(runId): this.activeRuns.get(runId) || null
getRunStatus(runId) ==
  IF runId \in DOMAIN activeRuns THEN activeRuns[runId] ELSE NoRunStatus

\* the workflow ids a request can name
RequestedIds == {"w1", "w2", "w0"}

\* data.json holds workflow w1 with one step and workflow w2 with none
InitRequests ==
  /\ wsServer \in {"null", "clients"}
  /\ workflows = {"w1", "w2"}
  /\ steps \in {storedSteps("w1", inputs) : inputs \in [1..1 -> StepInputs]}
  /\ runs = <<>>
  /\ step_executions = <<>>
  /\ activeRuns = [r \in {} |-> 0]
  /\ proc = [r \in {} |-> 0]
  /\ events = <<>>
  /\ unhandled = {}
  /\ replies = {}
  /\ evaluatorCall = NoEvaluation
  /\ providerCall = NoRequests

NextRequests ==
  \/ \E workflowId \in RequestedIds : Execute(workflowId)
  \/ \E workflowId \in RequestedIds : ExecuteFails(workflowId)
  \/ \E workflowId \in RequestedIds : DeleteWorkflow(workflowId)
  \/ \E runId \in RunIds : ProviderReturns(runId)
  \/ \E runId \in RunIds : ProviderRaises(runId)
  \/ \E runId \in RunIds : DelayElapsed(runId)
  \/ \E runId \in RunIds : CatchHandler(runId)

SpecRequests == InitRequests /\ [][NextRequests]_vars

(***************************************************************************)
(* The workflow routes next to a run: workflows are created, have their    *)
(* steps replaced and are deleted while a run of w1 is under way.          *)
(***************************************************************************)
\* the largest step id drawn so far
MaxStepId == 3

\* db.deleteWorkflowSteps(workflowId)
deleteWorkflowSteps(allSteps, workflowId) ==
  withoutWorkflow(allSteps, workflowId)

\* the last step id in use: by a stored step or by a StepExecution
lastStepId ==
  LET used == {steps[k].id : k \in 1..Len(steps)}
                \cup {step_executions[k].step_id : k \in 1..Len(step_executions)} \cup {0}
  IN  CHOOSE n \in used : \A k \in used : k <= n

\* steps.forEach((step, index) => db.addStep(id, index, step)), each with a new id
addSteps(allSteps, workflowId, inputs) ==
  allSteps \o [k \in 1..Len(inputs) |-> addStep(lastStepId + k, workflowId, k - 1, inputs[k])]

\* the steps arrays of the bodies of POST and PUT /api/workflows
WorkflowEdits ==
  {<<>>,
   <<[model |-> "", prompt |-> <<"q">>, criteria_type |-> "", criteria_value |-> <<>>,
      retry_limit |-> 1, context_mode |-> ""]>>}

\* an update that also drops the StepExecutions of the steps it deletes
UpdateWorkflowCascading(id, inputs) ==
  /\ id \in workflows
  /\ lastStepId + Len(inputs) <= MaxStepId
  /\ steps' = addSteps(deleteWorkflowSteps(steps, id), id, inputs)
  /\ step_executions' = SelectSeq(step_executions,
                                  LAMBDA e : \A k \in 1..Len(steps) :
                                               steps[k].workflow_id = id => steps[k].id # e.step_id)
  /\ UNCHANGED <<workflows, runs, activeRuns, proc, events, wsServer, unhandled, replies, evaluatorCall, providerCall>>

\* PUT /api/workflows/:id with a steps array: the steps of a stored workflow
\* are deleted and the ones of the body added; an id not stored replies 404
UpdateWorkflow(id, inputs) ==
  /\ id \in workflows
  /\ lastStepId + Len(inputs) <= MaxStepId
  /\ steps' = addSteps(deleteWorkflowSteps(steps, id), id, inputs)
  /\ UNCHANGED <<workflows, runs, step_executions, activeRuns, proc, events, wsServer, unhandled, replies,
                 evaluatorCall, providerCall>>

\* POST /api/workflows: a workflow with a new id and the steps of the body
CreateWorkflow(id, inputs) ==
  /\ id \notin workflows
  /\ \A k \in 1..Len(runs) : runs[k].workflow_id # id
  /\ \A r \in DOMAIN activeRuns : activeRuns[r].workflowId # id
  /\ \A reply \in replies : reply.workflowId # id
  /\ lastStepId + Len(inputs) <= MaxStepId
  /\ workflows' = workflows \cup {id}
  /\ steps' = addSteps(steps, id, inputs)
  /\ UNCHANGED <<runs, step_executions, activeRuns, proc, events, wsServer, unhandled, replies, evaluatorCall, providerCall>>

\* DELETE /api/workflows/:id of a stored workflow
DeleteStoredWorkflow(id) ==
  /\ id \in workflows
  /\ DeleteWorkflow(id)

\* data.json holds workflow w1 with two steps
InitWorkflows ==
  /\ wsServer \in {"null", "clients"}
  /\ workflows = {"w1"}
  /\ steps = storedSteps("w1", <<[model |-> "", prompt |-> <<"q">>, criteria_type |-> "contains",
                                  criteria_value |-> <<"A">>, retry_limit |-> 2,
                                  context_mode |-> "last_paragraph"],
                                 [model |-> "kimi-k2p5", prompt |-> ContextPlaceholder,
                                  criteria_type |-> "", criteria_value |-> <<>>, retry_limit |-> 1,
                                  context_mode |-> ""]>>)
  /\ runs = <<>>
  /\ step_executions = <<>>
  /\ activeRuns = [r \in {} |-> 0]
  /\ proc = [r \in {} |-> 0]
  /\ events = <<>>
  /\ unhandled = {}
  /\ replies = {}
  /\ evaluatorCall = NoEvaluation
  /\ providerCall = NoRequests

NextWorkflows ==
  \/ \E workflowId \in ConcurrentWorkflowIds : Execute(workflowId)
  \/ \E workflowId \in ConcurrentWorkflowIds : ExecuteFails(workflowId)
  \/ \E workflowId \in ConcurrentWorkflowIds, inputs \in WorkflowEdits : CreateWorkflow(workflowId, inputs)
  \/ \E workflowId \in ConcurrentWorkflowIds, inputs \in WorkflowEdits : UpdateWorkflow(workflowId, inputs)
  \/ \E workflowId \in ConcurrentWorkflowIds : DeleteStoredWorkflow(workflowId)
  \/ \E runId \in RunIds : ProviderReturns(runId)
  \/ \E runId \in RunIds : ProviderRaises(runId)
  \/ \E runId \in RunIds : DelayElapsed(runId)
  \/ \E runId \in RunIds : CatchHandler(runId)

SpecWorkflows == InitWorkflows /\ [][NextWorkflows]_vars

\* the same, where every provider call eventually resolves or rejects, every
\* one-second timer fires, and every rejected promise reaches its .catch handler
SpecWorkflowsFair ==
  /\ InitWorkflows
  /\ [][NextWorkflows]_vars
  /\ \A runId \in RunIds :
       /\ WF_vars(ProviderReturns(runId) \/ ProviderRaises(runId))
       /\ WF_vars(DelayElapsed(runId))
       /\ WF_vars(CatchHandler(runId))

(***************************************************************************)
(* The completion provider's client (services/unbound.js, UnboundService)  *)
(* under a run of a workflow of one step: every HTTP request of a provider *)
(* call is answered on its own, by a response or by a failure.             *)
(***************************************************************************)
\* maxRetries = 3, the default the engine's calls leave in place
DefaultMaxRetries == 3

\* calculateCost, in millionths of a dollar; MODEL_COSTS gives the price of
\* 1K tokens, here in thousandths of a dollar
calculateCost(model, inputTokens, outputTokens) ==
  LET costs == IF model = "kimi-k2p5" THEN [input |-> 2, output |-> 6] ELSE [input |-> 1, output |-> 3]
  IN  inputTokens * costs.input + outputTokens * costs.output

\* response.data of a 2xx response: the JSON body null, a body without
\* choices and usage, and a body with both
HttpResponses ==
  { [null |-> TRUE,  content |-> <<>>, usage |-> FALSE, prompt_tokens |-> 0, completion_tokens |-> 0],
    [null |-> FALSE, content |-> <<>>, usage |-> FALSE, prompt_tokens |-> 0, completion_tokens |-> 0],
    [null |-> FALSE, content |-> <<"A">>, usage |-> TRUE, prompt_tokens |-> 2, completion_tokens |-> 1] }

\* the errors axios.post rejects with: a response of status 401 whose body
\* carries error.message, a response of status 503 whose body carries none,
\* a connection reset, and the timeout of 60000 ms
HttpErrors ==
  { [response |-> TRUE, status |-> 401, code |-> "ERR_BAD_REQUEST",
     message |-> <<"Request failed with status code 401">>, apiMessage |-> <<"Invalid API key">>],
    [response |-> TRUE, status |-> 503, code |-> "ERR_BAD_RESPONSE",
     message |-> <<"Request failed with status code 503">>, apiMessage |-> <<>>],
    [response |-> FALSE, status |-> 0, code |-> "ECONNRESET",
     message |-> <<"socket hang up">>, apiMessage |-> <<>>],
    [response |-> FALSE, status |-> 0, code |-> "ECONNABORTED",
     message |-> <<"timeout of 60000ms exceeded">>, apiMessage |-> <<>>] }

\* the TypeError of data.choices where data is null
ChoicesOfNull ==
  [response |-> FALSE, status |-> 0, code |-> "",
   message |-> <<"Cannot read properties of null (reading 'choices')">>, apiMessage |-> <<>>]

\* const isRetryable = ...
isRetryable(error) ==
  \/ ~error.response
  \/ error.status >= 500
  \/ error.code = "ECONNABORTED"
  \/ error.code = "ECONNRESET"

\* the try block after the await: { content, tokens, cost }, of which the
\* engine reads tokens.total
callResult(model, data) ==
  LET input  == IF data.usage THEN data.prompt_tokens ELSE 0
      output == IF data.usage THEN data.completion_tokens ELSE 0
  IN  [content |-> data.content, tokens |-> input + output, cost |-> calculateCost(model, input, output)]

\* the call is over: the next call starts with its own locals
callOver(outcome) ==
  [NoRequests EXCEPT !.answered = providerCall.answered + 1, !.last = outcome]

\* the catch block of the loop: the retry delay is awaited, or the call
\* rejects with error.response?.data?.error?.message || error.message and
\* the engine's await raises
callCatch(runId, error, outcome) ==
  IF isRetryable(error) /\ providerCall.attempt < DefaultMaxRetries
    THEN /\ providerCall' = [providerCall EXCEPT !.pc = "waiting", !.lastError = error,
                                                 !.answered = @ + 1, !.last = outcome]
         /\ UNCHANGED <<workflows, steps, runs, step_executions, activeRuns, proc, events, wsServer,
                        unhandled, evaluatorCall>>
    ELSE /\ providerCall' = callOver(outcome)
         /\ LET message == IF error.response /\ error.apiMessage # <<>> THEN error.apiMessage
                                                                         ELSE error.message
            IN  \E m \in attemptRaised(current(runId), runId, message) : CommitRun(m, runId)

\* axios.post resolves: the result is built and returned to the engine,
\* unless reading the body raises, which the catch block of the loop takes
HttpResponds(runId) ==
  /\ runId \in DOMAIN proc
  /\ proc[runId].pc = "calling"
  /\ providerCall.pc = "requesting"
  /\ \E data \in HttpResponses :
       LET outcome == [success |-> TRUE, error |-> NoHttpError]
       IN  IF data.null
             THEN callCatch(runId, ChoicesOfNull, outcome)
             ELSE /\ providerCall' = callOver(outcome)
                  /\ \E m \in attemptReturned(current(runId), runId, callResult(proc[runId].call.model, data)) :
                       CommitRun(m, runId)
  /\ UNCHANGED replies

\* axios.post rejects
HttpFails(runId) ==
  /\ runId \in DOMAIN proc
  /\ proc[runId].pc = "calling"
  /\ providerCall.pc = "requesting"
  /\ \E error \in HttpErrors : callCatch(runId, error, [success |-> FALSE, error |-> error])
  /\ UNCHANGED replies

\* the delay of attempt * 2000 ms is over: the loop makes its next request
RetryDelayElapsed(runId) ==
  /\ runId \in DOMAIN proc
  /\ proc[runId].pc = "calling"
  /\ providerCall.pc = "waiting"
  /\ providerCall' = [providerCall EXCEPT !.pc = "requesting", !.attempt = @ + 1]
  /\ UNCHANGED <<workflows, steps, runs, step_executions, activeRuns, proc, events, wsServer,
                 unhandled, evaluatorCall, replies>>

InitProvider ==
  /\ wsServer \in {"null", "clients"}
  /\ workflows = WorkflowIds
  /\ steps \in {storedSteps("w1", <<input>>) : input \in StepInputs}
  /\ runs = <<>>
  /\ step_executions = <<>>
  /\ activeRuns = [r \in {} |-> 0]
  /\ proc = [r \in {} |-> 0]
  /\ events = <<>>
  /\ unhandled = {}
  /\ replies = {}
  /\ evaluatorCall = NoEvaluation
  /\ providerCall = NoRequests

NextProvider ==
  \/ \E workflowId \in WorkflowIds : Execute(workflowId)
  \/ \E runId \in RunIds : HttpResponds(runId)
  \/ \E runId \in RunIds : HttpFails(runId)
  \/ \E runId \in RunIds : RetryDelayElapsed(runId)
  \/ \E runId \in RunIds : DelayElapsed(runId)
  \/ \E runId \in RunIds : CatchHandler(runId)

SpecProvider == InitProvider /\ [][NextProvider]_vars

(***************************************************************************)
(* Properties.  A run is observable when its sequence is suspended at an   *)
(* await or has ended: the handler of a request runs only then.            *)
(***************************************************************************)
\* the record of run runId in data.runs
runRecord(runId) ==
  runs[findIndex(runs, runId)]

\* the StepExecutions of run runId, in the order execute created them: the
\* k-th one belongs to the k-th step the run loaded
executionsOf(runId) ==
  SelectSeq(step_executions, LAMBDA e : e.run_id = runId)

\* the events broadcast for run runId, oldest first
eventsOf(runId) ==
  SelectSeq(events, LAMBDA e : e.runId = runId)

\* run runId is suspended at an await or has ended
observable(runId) ==
  runId \in DOMAIN proc /\ proc[runId].pc \in {"calling", "delay", "done"}

\* C1: in every observable state, the persisted status of a run is
\* 'completed' if and only if every StepExecution of the run is 'passed'.
C1_CompletedIffAllPassed ==
  \A r \in RunIds :
    observable(r) =>
      LET E == executionsOf(r)
      IN  (runRecord(r).status = "completed") <=> (\A j \in 1..Len(E) : E[j].status = "passed")

\* C2: in every observable state, the persisted status of a run is 'failed'
\* if and only if exactly one of its StepExecutions is 'failed' and every
\* StepExecution of a later step is 'pending', whichever way the run failed.
C2_FailedIffOneFailedRestPending ==
  \A r \in RunIds :
    observable(r) =>
      LET E == executionsOf(r)
      IN  (runRecord(r).status = "failed") <=>
            \E i \in 1..Len(E) :
              /\ E[i].status = "failed"
              /\ \A j \in 1..Len(E) : j # i => E[j].status # "failed"
              /\ \A j \in (i + 1)..Len(E) : E[j].status = "pending"

\* C3: within a run at most one StepExecution is 'running', and when the
\* StepExecution of step i is 'running', 'passed' or 'failed', the
\* StepExecution of every earlier step is 'passed'.
C3_StepsAdvanceInOrder ==
  \A r \in DOMAIN proc :
    LET E == executionsOf(r)
    IN  /\ Cardinality({i \in 1..Len(E) : E[i].status = "running"}) <= 1
        /\ \A i \in 1..Len(E) :
             E[i].status \in {"running", "passed", "failed"} =>
               \A j \in 1..(i - 1) : E[j].status = "passed"

\* a run whose second step is running after its first step passed
C3_Witness ==
  \E r \in DOMAIN proc :
    LET E == executionsOf(r)
    IN  Len(E) >= 2 /\ E[1].status = "passed" /\ E[2].status = "running"

\* C4: a StepExecution that is 'passed' or 'failed' has
\* 1 <= attempts <= retry_limit of its step, and a 'pending' one has attempts = 0.
C4_AttemptsWithinRetryLimit ==
  \A r \in DOMAIN proc :
    LET E == executionsOf(r)
    IN  \A i \in 1..Len(E) :
          /\ E[i].status \in {"passed", "failed"} =>
               (1 <= E[i].attempts /\ E[i].attempts <= proc[r].steps[i].retry_limit)
          /\ E[i].status = "pending" => E[i].attempts = 0

\* C5: once the persisted status of a run is 'completed' or 'failed', no
\* step of the engine changes that status or any StepExecution of the run.
C5_TerminalStatusIsFinal ==
  [][\A k \in 1..Len(runs) :
       runs[k].status \in {"completed", "failed"} =>
         /\ runs'[k].status = runs[k].status
         /\ SelectSeq(step_executions', LAMBDA e : e.run_id = runs[k].id) = executionsOf(runs[k].id)]_vars

\* C6: the input_context recorded for step 1 is the empty text; the one
\* recorded for step i+1 is extractContext of the output of the passing
\* attempt of step i under the context_mode of step i; a step after a step
\* that did not pass records no input_context.
C6_ContextIsExtractOfPassingOutput ==
  \A r \in DOMAIN proc :
    LET E == executionsOf(r)
        p == proc[r]
    IN  \A i \in 1..Len(E) :
          IF E[i].status = "pending" THEN E[i].input_context = NULL
          ELSE IF i = 1 THEN E[i].input_context = <<>>
          ELSE /\ E[i - 1].status = "passed"
               /\ p.passing[i - 1] # NULL
               /\ E[i].input_context = extractContext(p.passing[i - 1], p.steps[i - 1].context_mode)

\* a second step has started with a context that is a proper part of the first step's output
C6_Witness ==
  \E r \in DOMAIN proc :
    LET E == executionsOf(r)
    IN  /\ Len(E) >= 2
        /\ E[2].status # "pending"
        /\ E[2].input_context # <<>>
        /\ E[2].input_context # E[1].output

\* C7: on a provider call with a non-empty previousContext, the context
\* reaches the provider exactly once: a template with the placeholder has it
\* folded into the prompt and the context parameter empty; a template
\* without the placeholder is sent with previousContext as the context parameter.
C7_ContextReachesProviderOnce ==
  \A r \in DOMAIN proc :
    LET p == proc[r]
    IN  (p.pc = "calling" /\ p.previousContext # <<>>) =>
          IF includes(p.steps[p.i].prompt, ContextPlaceholder)
            THEN includes(p.call.prompt, p.previousContext) /\ p.call.context = <<>>
            ELSE p.call.prompt = p.steps[p.i].prompt /\ p.call.context = p.previousContext

\* C8: the prompt of a provider call is the template with every occurrence
\* of the placeholder replaced by previousContext (also when previousContext
\* is empty); a template without the placeholder is sent as it is.
C8_PlaceholderSubstituted ==
  LET RECURSIVE substituteFrom(_, _, _)
      \* template from position from on, every placeholder replaced by the text as it is
      substituteFrom(template, text, from) ==
        LET at == IndexOfFrom(template, ContextPlaceholder, from)
        IN  IF at = 0 THEN TextFrom(template, from)
            ELSE SubSeq(template, from, at - 1) \o text
                 \o substituteFrom(template, text, at + Len(ContextPlaceholder))
  IN  \A r \in DOMAIN proc :
        LET p == proc[r]
        IN  p.pc = "calling" =>
              p.call.prompt = substituteFrom(p.steps[p.i].prompt, p.previousContext, 1)

\* C9: a run of a one-step workflow with criterion 'always' and retry_limit
\* 3, all of whose provider calls returned, ends 'completed' with attempts = 1
\* (stated for a server without an event transport).
C9_AlwaysCompletesInOneAttempt ==
  \A r \in DOMAIN proc :
    LET p == proc[r]
    IN  (/\ wsServer = "null"
         /\ p.pc = "done"
         /\ Len(p.steps) = 1
         /\ p.steps[1].criteria_type = "always"
         /\ p.steps[1].retry_limit = 3
         /\ p.raises[1] = 0) =>
          (runRecord(r).status = "completed" /\ executionsOf(r)[1].attempts = 1)

\* C10: when a run has ended at a step all of whose provider calls returned
\* and none of whose responses met the criterion, that step was called
\* exactly retry_limit times, its StepExecution is 'failed' with attempts =
\* retry_limit, the run is 'failed', and every later StepExecution is
\* 'pending' with no provider call made for its step.
C10_ExhaustedRetriesFailRun ==
  \A r \in DOMAIN proc :
    LET p == proc[r]
        E == executionsOf(r)
    IN  (p.pc = "done" /\ p.raises[p.i] = 0 /\ ~p.satisfied[p.i]) =>
          /\ p.calls[p.i] = p.steps[p.i].retry_limit
          /\ E[p.i].status = "failed"
          /\ E[p.i].attempts = p.steps[p.i].retry_limit
          /\ runRecord(r).status = "failed"
          /\ \A j \in (p.i + 1)..Len(E) : E[j].status = "pending" /\ p.calls[j] = 0

\* C11: a provider call that raises uses up one attempt like a criterion
\* failure: a 'step_error' event with the message directly follows the
\* 'step_attempt' event of the attempt (no 'step_response', no
\* 'step_evaluated'), the message is the pending error, the loop goes on to
\* the delay while attempts remain, and a step all of whose calls raised has
\* ended 'failed' with attempts = retry_limit and the last message as error.
C11_ProviderRaiseIsFailedAttempt ==
  \A r \in DOMAIN proc :
    LET p  == proc[r]
        E  == executionsOf(r)
        ev == eventsOf(r)
        raised(k) == ev[k].type = "step_error" /\ ev[k].error \in ProviderErrors
    IN  /\ \A k \in 1..Len(ev) :
             raised(k) => (k > 1 /\ ev[k - 1].type = "step_attempt" /\ ev[k - 1].stepId = ev[k].stepId)
        /\ \A i \in 1..Len(p.steps) :
             Cardinality({k \in 1..Len(ev) : raised(k) /\ ev[k].stepId = p.steps[i].id}) = p.raises[i]
        /\ (observable(r) /\ ev # <<>> /\ raised(Len(ev))) =>
             /\ p.lastError = ev[Len(ev)].error
             /\ p.attempts < p.steps[p.i].retry_limit => p.pc = "delay"
        /\ (p.pc = "done" /\ p.calls[p.i] >= 1 /\ p.raises[p.i] = p.calls[p.i]) =>
             /\ E[p.i].status = "failed"
             /\ E[p.i].attempts = p.steps[p.i].retry_limit
             /\ p.raises[p.i] = p.steps[p.i].retry_limit
             /\ E[p.i].error \in ProviderErrors

\* C12: the tokens_used (cost) persisted for a step that is 'passed' or
\* 'failed' is the sum of the tokens (cost) of every response its attempts
\* received, and the total_tokens (total_cost) of a run that is 'completed'
\* or 'failed' is the sum of tokens_used (cost) over its StepExecutions.
C12_TotalsAreSums ==
  LET RECURSIVE Sum(_, _)
      \* the sum of field f over the records of E
      Sum(E, f) == IF E = <<>> THEN 0 ELSE E[1][f] + Sum(Tail(E), f)
  IN  \A r \in RunIds :
        observable(r) =>
          LET p == proc[r]
              E == executionsOf(r)
          IN  /\ \A i \in 1..Len(E) :
                   E[i].status \in {"passed", "failed"} =>
                     (E[i].tokens_used = p.spentTokens[i] /\ E[i].cost = p.spentCost[i])
              /\ runRecord(r).status \in {"completed", "failed"} =>
                   /\ runRecord(r).total_tokens = Sum(E, "tokens_used")
                   /\ runRecord(r).total_cost = Sum(E, "cost")

\* C13: execute on a workflow id that is not stored, or on a workflow without
\* steps, fails at once: the route replies 500 with the message, and no run,
\* StepExecution, registry entry or event is created.
C13_FailedExecuteChangesNothing ==
  [][\A reply \in replies' \ replies :
       (reply.workflowId \notin workflows \/ getWorkflowSteps(steps, reply.workflowId) = <<>>) =>
         /\ reply.status = 500
         /\ reply.error = IF reply.workflowId \in workflows THEN <<"Workflow has no steps">>
                                                           ELSE <<"Workflow not found">>
         /\ UNCHANGED <<workflows, steps, runs, step_executions, activeRuns, proc, events, unhandled>>]_vars

\* both failing requests were made while a run was under way
C13_Witness ==
  /\ \E reply \in replies : reply.workflowId = "w0" /\ reply.status = 500
  /\ \E reply \in replies : reply.workflowId = "w2" /\ reply.status = 500
  /\ \E r \in DOMAIN proc : proc[r].pc = "calling"

\* C14: when an exception leaves the background sequence of a run, the outer
\* catch leaves the Run 'failed' and out of the registry, with a final
\* 'run_completed' event of status 'failed', and nothing escapes the handler
\* as an unhandled rejection.
C14_OuterCatchFailsRun ==
  \A r \in DOMAIN proc :
    (proc[r].pc = "done" /\ proc[r].error # NoError) =>
      LET ev == eventsOf(r)
      IN  /\ runRecord(r).status = "failed"
          /\ r \notin DOMAIN activeRuns
          /\ ev # <<>>
          /\ ev[Len(ev)].type = "run_completed"
          /\ ev[Len(ev)].status = "failed"
          /\ r \notin unhandled

\* C15: a run id is in the registry exactly while the persisted status of
\* its Run is 'running', and getRunStatus returns {workflowId, 'running'} for
\* such a run and nothing for any other run id.
C15_RegistryMatchesRunningRuns ==
  \A r \in RunIds :
    LET running == findIndex(runs, r) # 0 /\ runRecord(r).status = "running"
    IN  /\ (r \in DOMAIN activeRuns) <=> running
        /\ getRunStatus(r) = IF running
                               THEN [workflowId |-> runRecord(r).workflow_id, status |-> "running"]
                               ELSE NoRunStatus

\* C16: whenever a run awaits the provider, waits between two attempts or has
\* ended, its provider calls (their number per step and the one pending) and
\* its persisted Run and StepExecutions are those of the run of the same
\* workflow, given the same provider outcomes, in which no send raises.
C16_EventsDoNotAffectProgress ==
  \A r \in DOMAIN proc :
    observable(r) /\ findIndex(runs, r) # 0 =>
      LET p == proc[r]
          quiet(M) == CHOOSE m \in M : ~m.thrown /\ m.p.sendFailures = 0
          RECURSIVE replay(_, _)
          replay(m, history) ==
            IF m.p.pc = "delay" /\ (history # <<>> \/ p.pc = "calling")
              THEN replay(quiet(whileLoop(m, r)), history)
            ELSE IF m.p.pc = "calling" /\ history # <<>>
              THEN replay(quiet(IF history[1].raised
                                  THEN attemptRaised(m, r, history[1].message)
                                  ELSE attemptReturned(m, r, history[1].result)),
                          Tail(history))
            ELSE m
          workflowId == runRecord(r).workflow_id
          reference  == replay(quiet(executeSteps(
                            [runs            |-> createRun(<<>>, r, workflowId),
                             step_executions |-> createStepExecutions(<<>>, r, p.steps),
                             activeRuns      |-> mapSet([k \in {} |-> 0], r,
                                                        [workflowId |-> workflowId, status |-> "running"]),
                             events          |-> <<>>,
                             p               |-> newExecution(p.steps),
                             thrown          |-> FALSE,
                             error           |-> <<>>], r)),
                          p.history)
      IN  /\ reference.p.pc = p.pc
          /\ reference.p.calls = p.calls
          /\ reference.p.call = p.call
          /\ reference.runs = runs
          /\ reference.step_executions = step_executions

\* C17: the events of an ended run are of the seven types, and for each step
\* that was started they are one 'step_started', then for each attempt
\* k = 1..attempts a 'step_attempt' with index k and the retry limit followed
\* by 'step_response' and 'step_evaluated' or by 'step_error', then one
\* 'step_completed' whose passed flag tells whether the step is persisted
\* 'passed'.
C17_StepEventProtocol ==
  \A r \in DOMAIN proc :
    proc[r].pc = "done" =>
      LET p  == proc[r]
          E  == executionsOf(r)
          ev == eventsOf(r)
          RECURSIVE attemptsFrom(_, _, _)
          attemptsFrom(b, k, limit) ==
            IF b = <<>> THEN k - 1
            ELSE IF b[1].type = "step_attempt" /\ b[1].attempt = k /\ b[1].maxAttempts = limit
              THEN IF Len(b) >= 3 /\ b[2].type = "step_response" /\ b[3].type = "step_evaluated"
                     THEN attemptsFrom(SubSeq(b, 4, Len(b)), k + 1, limit)
                   ELSE IF Len(b) >= 2 /\ b[2].type = "step_error"
                     THEN attemptsFrom(SubSeq(b, 3, Len(b)), k + 1, limit)
                   ELSE -1
            ELSE -1
      IN  /\ \A k \in 1..Len(ev) :
               ev[k].type \in {"step_started", "step_attempt", "step_response", "step_evaluated",
                               "step_error", "step_completed", "run_completed"}
          /\ \A i \in 1..Len(p.steps) :
               LET es == SelectSeq(ev, LAMBDA e : e.type # "run_completed" /\ e.stepId = p.steps[i].id)
               IN  es # <<>> =>
                     /\ Len(es) >= 2
                     /\ es[1].type = "step_started"
                     /\ es[Len(es)].type = "step_completed"
                     /\ es[Len(es)].passed = (E[i].status = "passed")
                     /\ attemptsFrom(SubSeq(es, 2, Len(es) - 1), 1, p.steps[i].retry_limit) = E[i].attempts

\* C18: an ended run has exactly one 'run_completed' event; it is the run's
\* last event, its status is the persisted status of the Run, and the Run is
\* terminal and out of the registry from the moment it is emitted.
C18_OneRunCompletedLast ==
  \A r \in DOMAIN proc :
    LET ev     == eventsOf(r)
        closes == {k \in 1..Len(ev) : ev[k].type = "run_completed"}
    IN  /\ proc[r].pc = "done" => Cardinality(closes) = 1
        /\ \A k \in closes :
             /\ k = Len(ev)
             /\ ev[k].status = runRecord(r).status
             /\ ev[k].totalTokens = runRecord(r).total_tokens
             /\ ev[k].totalCost = runRecord(r).total_cost
             /\ r \notin DOMAIN activeRuns

\* C19: whenever the evaluator awaits the judge for an 'llm' step, the model
\* of the judge's provider call is the fixed judge model and differs from
\* the model of the step.
C19_JudgeModelDiffersFromStepModel ==
  \A r \in DOMAIN proc :
    proc[r].pc = "judging" =>
      /\ proc[r].steps[proc[r].i].criteria_type = "llm"
      /\ proc[r].call.model = llmEvaluator(<<>>, "gpt-4o-mini").model
      /\ proc[r].call.model # proc[r].steps[proc[r].i].model

\* C20: evaluateCriteria called with an empty output returns passed = false
\* with the reason 'No output received' for every kind and every value, and
\* never awaits the judge.
C20_EmptyOutputFails ==
  (evaluatorCall.pc # "none" /\ evaluatorCall.output = <<>>) =>
    /\ evaluatorCall.pc # "judging"
    /\ evaluatorCall.judge = NoCall
    /\ evaluatorCall.pc = "returned" =>
         evaluatorCall.verdict = [passed |-> FALSE, reason |-> <<"No output received">>]

\* the call with an empty output, kind 'llm' and a judge supplied has returned
C20_Witness ==
  /\ evaluatorCall.pc = "returned"
  /\ evaluatorCall.output = <<>>
  /\ evaluatorCall.criteriaType = "llm"
  /\ evaluatorCall.llmCall

\* C21: on an output that is not empty, kind 'contains' passes exactly when
\* the value is empty or occurs in the output up to the case of letters, and
\* kind 'not_contains' passes exactly when the value is empty or does not so
\* occur; for a value that is not empty exactly one of the two passes.
C21_ContainsAndNotContainsAreInverse ==
  (evaluatorCall.pc = "returned" /\ evaluatorCall.output # <<>>
     /\ evaluatorCall.criteriaType \in {"contains", "not_contains"}) =>
    LET output == evaluatorCall.output
        value  == evaluatorCall.criteriaValue
        sameLetter(a, b) ==
          a = b \/ \E n \in 1..26 : {a, b} = {UpperLetters[n], LowerLetters[n]}
        occurs ==
          \E k \in 1..(Len(output) - Len(value) + 1) :
            \A j \in 1..Len(value) : sameLetter(output[k + j - 1], value[j])
    IN  /\ evaluatorCall.criteriaType = "contains" =>
             evaluatorCall.verdict.passed = (value = <<>> \/ occurs)
        /\ evaluatorCall.criteriaType = "not_contains" =>
             evaluatorCall.verdict.passed = (value = <<>> \/ ~occurs)
        /\ evaluateContains(output, value).passed /\ evaluateNotContains(output, value).passed
             <=> value = <<>>
        /\ evaluateContains(output, value).passed \/ evaluateNotContains(output, value).passed

\* 'not_contains' has failed on an output that holds the value in another case
C21_Witness ==
  /\ evaluatorCall.pc = "returned"
  /\ evaluatorCall.criteriaType = "not_contains"
  /\ evaluatorCall.output = <<"A", "b">>
  /\ evaluatorCall.criteriaValue = <<"a", "B">>
  /\ ~evaluatorCall.verdict.passed

\* C22: on an output that is not empty, kind 'length_max' with a value that
\* is the decimal text of an integer n (negative and zero included) passes
\* exactly when the length of the output is at most n, and with a value that
\* holds no number it passes.
C22_LengthMaxComparesWithParsedInteger ==
  (evaluatorCall.pc = "returned" /\ evaluatorCall.output # <<>>
     /\ evaluatorCall.criteriaType = "length_max") =>
    LET value    == evaluatorCall.criteriaValue
        negative == value # <<>> /\ value[1] = "-"
        digits   == IF negative THEN Tail(value) ELSE value
        integer  == digits # <<>> /\ \A k \in 1..Len(digits) : digits[k] \in Digits
        RECURSIVE decimal(_)
        decimal(k) ==
          IF k = 0 THEN 0
          ELSE 10 * decimal(k - 1) + ((CHOOSE d \in 1..10 : DigitSeq[d] = digits[k]) - 1)
        n        == IF negative THEN 0 - decimal(Len(digits)) ELSE decimal(Len(digits))
    IN  /\ integer => (evaluatorCall.verdict.passed <=> Len(evaluatorCall.output) <= n)
        /\ (\A k \in 1..Len(value) : value[k] \notin Digits) => evaluatorCall.verdict.passed

\* C23: on an output with at least one fenced block, kind 'code' with a
\* language value passes exactly when the tag after the opening fence of
\* some block is the value up to the case of letters (a tag that only
\* starts with the value does not count), and with an empty value it passes.
C23_CodeLanguageEqualsFenceTag ==
  (evaluatorCall.pc = "returned" /\ evaluatorCall.criteriaType = "code"
     /\ matchCodeBlocks(evaluatorCall.output, 1) # <<>>) =>
    LET blocks == matchCodeBlocks(evaluatorCall.output, 1)
        value  == evaluatorCall.criteriaValue
        tagEnd(block) ==
          CHOOSE e \in 4..Len(block) :
            /\ block[e] \in WhiteSpace \cup {BackTick}
            /\ \A j \in 4..(e - 1) : block[j] \notin WhiteSpace \cup {BackTick}
        tag(block) == SubSeq(block, 4, tagEnd(block) - 1)
        sameText(a, b) == toLowerCase(a) = toLowerCase(b)
    IN  IF value = <<>> THEN evaluatorCall.verdict.passed
        ELSE evaluatorCall.verdict.passed <=>
               \E b \in 1..Len(blocks) : sameText(tag(blocks[b]), value)

\* C24: a call of evaluateCriteria never ends in an exception: whatever the
\* output, the kind and the value, and whether the judge resolves or rejects,
\* it returns a verdict with a reason.
C24_EvaluatorNeverRaises ==
  /\ evaluatorCall.pc # "raised"
  /\ evaluatorCall.pc = "returned" => evaluatorCall.verdict.reason # NULL


\* C25: every step of two runs under way at once changes the records of one
\* run only: its Run record, its StepExecutions (status, attempts, context,
\* output, error, tokens, cost), its locals, its registry entry and its events;
\* and it changes them as the same callback does for that run alone, given the
\* same provider outcome. While one run is suspended in a call or a delay, the
\* other's pending call can return or raise, its delay can elapse, and a run
\* that was not started can be started on any stored workflow.
C25_ConcurrentRunsDoNotInterfere ==
  [][LET unnamed(E) == [k \in 1..Len(E) |-> [E[k] EXCEPT !.id = 0]]
         ofRun(r) ==
           [run        |-> SelectSeq(runs, LAMBDA x : x.id = r),
            executions |-> unnamed(executionsOf(r)),
            registry   |-> IF r \in DOMAIN activeRuns THEN <<activeRuns[r]>> ELSE <<>>,
            locals     |-> IF r \in DOMAIN proc THEN <<[proc[r] EXCEPT !.stepExec = 0]>> ELSE <<>>,
            events     |-> eventsOf(r)]
         recordsOf(m, r) ==
           [run        |-> m.runs,
            executions |-> unnamed(m.step_executions),
            registry   |-> IF r \in DOMAIN m.activeRuns THEN <<m.activeRuns[r]>> ELSE <<>>,
            locals     |-> <<[m.p EXCEPT !.stepExec = 0]>>,
            events     |-> m.events]
         committed(m) ==
           IF m.thrown THEN [m EXCEPT !.p = [m.p EXCEPT !.pc = "rejected", !.error = m.error]] ELSE m
         isolated(r) ==
           [runs            |-> SelectSeq(runs, LAMBDA x : x.id = r),
            step_executions |-> executionsOf(r),
            activeRuns      |-> IF r \in DOMAIN activeRuns THEN mapSet([k \in {} |-> 0], r, activeRuns[r])
                                                           ELSE [k \in {} |-> 0],
            events          |-> eventsOf(r),
            p               |-> proc[r],
            thrown          |-> FALSE,
            error           |-> <<>>]
         startedAlone(r) ==
           UNION {executeSteps(
                    [runs            |-> createRun(<<>>, r, w),
                     step_executions |-> createStepExecutions(<<>>, r, getWorkflowSteps(steps, w)),
                     activeRuns      |-> mapSet([k \in {} |-> 0], r, [workflowId |-> w, status |-> "running"]),
                     events          |-> <<>>,
                     p               |-> newExecution(getWorkflowSteps(steps, w)),
                     thrown          |-> FALSE,
                     error           |-> <<>>], r) : w \in {v \in workflows : executeError(v) = NoError}}
         alone(r) ==
           IF r \notin DOMAIN proc THEN {committed(m) : m \in startedAlone(r)}
           ELSE IF proc[r].pc = "calling"
             THEN {committed(m) :
                     m \in UNION ({attemptReturned(isolated(r), r, result) : result \in Responses}
                                  \cup {attemptRaised(isolated(r), r, message) : message \in ProviderErrors})}
           ELSE IF proc[r].pc = "delay" THEN {committed(m) : m \in whileLoop(isolated(r), r)}
           ELSE IF proc[r].pc = "rejected"
             THEN {[m EXCEPT !.p = [proc[r] EXCEPT !.pc = "done"]] :
                     m \in failRun(isolated(r), r, proc[r].error, 0, 0)}
           ELSE {}
     IN  \A r \in ConcurrentRunIds :
           /\ ofRun(r)' # ofRun(r) =>
                /\ \A other \in ConcurrentRunIds \ {r} : ofRun(other)' = ofRun(other)
                /\ ofRun(r)' \in {recordsOf(m, r) : m \in alone(r)}
           /\ \A other \in ConcurrentRunIds \ {r} :
                r \in DOMAIN proc /\ proc[r].pc \in {"calling", "delay"} =>
                  /\ other \notin DOMAIN proc =>
                       \A w \in workflows : ENABLED ExecuteRun(w, other)
                  /\ other \in DOMAIN proc /\ proc[other].pc = "calling" =>
                       ENABLED ProviderReturns(other) /\ ENABLED ProviderRaises(other)
                  /\ other \in DOMAIN proc /\ proc[other].pc = "delay" => ENABLED DelayElapsed(other)
    ]_vars

\* two runs of the same workflow have ended, the events of one lying between
\* events of the other
C25_Witness ==
  /\ DOMAIN proc = ConcurrentRunIds
  /\ \A r \in ConcurrentRunIds : proc[r].pc = "done"
  /\ runs[1].workflow_id = runs[2].workflow_id
  /\ \E i, j, k \in 1..Len(events) :
       i < j /\ j < k /\ events[i].runId = events[k].runId /\ events[j].runId # events[i].runId


\* C26: while a run is under way, its loaded steps never change and its
\* StepExecutions stay the ones created at its start, one per loaded step; a
\* request that replaces or adds stored steps changes nothing of the run; each
\* provider call is made with the model of the loaded step; and as long as the
\* workflow is not deleted, every callback of the run changes its Run record,
\* StepExecutions, registry entry, locals and events as it does on the run's
\* own data alone, whatever steps are stored.
C26_RunKeepsLoadedSteps ==
  [][LET unnamed(E) == [k \in 1..Len(E) |-> [E[k] EXCEPT !.id = 0]]
         ofRun(r) ==
           [run        |-> SelectSeq(runs, LAMBDA x : x.id = r),
            executions |-> unnamed(executionsOf(r)),
            registry   |-> IF r \in DOMAIN activeRuns THEN <<activeRuns[r]>> ELSE <<>>,
            locals     |-> <<[proc[r] EXCEPT !.stepExec = 0]>>,
            events     |-> eventsOf(r)]
         recordsOf(m, r) ==
           [run        |-> m.runs,
            executions |-> unnamed(m.step_executions),
            registry   |-> IF r \in DOMAIN m.activeRuns THEN <<m.activeRuns[r]>> ELSE <<>>,
            locals     |-> <<[m.p EXCEPT !.stepExec = 0]>>,
            events     |-> m.events]
         committed(m) ==
           IF m.thrown THEN [m EXCEPT !.p = [m.p EXCEPT !.pc = "rejected", !.error = m.error]] ELSE m
         isolated(r) ==
           [runs            |-> SelectSeq(runs, LAMBDA x : x.id = r),
            step_executions |-> executionsOf(r),
            activeRuns      |-> IF r \in DOMAIN activeRuns THEN mapSet([k \in {} |-> 0], r, activeRuns[r])
                                                           ELSE [k \in {} |-> 0],
            events          |-> eventsOf(r),
            p               |-> proc[r],
            thrown          |-> FALSE,
            error           |-> <<>>]
         alone(r) ==
           IF proc[r].pc = "calling"
             THEN {committed(m) :
                     m \in UNION ({attemptReturned(isolated(r), r, result) : result \in Responses}
                                  \cup {attemptRaised(isolated(r), r, message) : message \in ProviderErrors})}
           ELSE IF proc[r].pc = "delay" THEN {committed(m) : m \in whileLoop(isolated(r), r)}
           ELSE IF proc[r].pc = "rejected"
             THEN {[m EXCEPT !.p = [proc[r] EXCEPT !.pc = "done"]] :
                     m \in failRun(isolated(r), r, proc[r].error, 0, 0)}
           ELSE {}
         created(r) == [k \in 1..Len(executionsOf(r)) |->
                          <<executionsOf(r)[k].id, executionsOf(r)[k].step_id>>]
     IN  \A r \in DOMAIN proc :
           /\ proc'[r].steps = proc[r].steps
           /\ created(r)' = created(r)
           /\ created(r) = [k \in 1..Len(proc[r].steps) |-> <<created(r)[k][1], proc[r].steps[k].id>>]
           /\ proc'[r].pc = "calling" => proc'[r].call.model = proc[r].steps[proc'[r].i].model
           /\ steps' # steps /\ workflows \subseteq workflows' => ofRun(r)' = ofRun(r)
           /\ ofRun(r)' # ofRun(r) /\ workflows \subseteq workflows' =>
                ofRun(r)' \in {recordsOf(m, r) : m \in alone(r)}
    ]_vars

\* the second provider call of a run is pending, made with the model of the
\* second step the run loaded, while its workflow is stored with other steps
C26_Witness ==
  /\ "r1" \in DOMAIN proc
  /\ proc["r1"].pc = "calling"
  /\ proc["r1"].i = 2
  /\ proc["r1"].call.model = "kimi-k2p5"
  /\ "w1" \in workflows
  /\ findIndex(runs, "r1") # 0
  /\ \A k \in 1..Len(steps) : \A j \in 1..2 : steps[k].id # proc["r1"].steps[j].id


\* C27: every run that execute started eventually has ended with its Run
\* persisted 'completed' or 'failed' and its id out of the registry, whatever
\* requests create, update or delete workflows meanwhile.
C27_EveryRunTerminates ==
  \A r \in RunIds :
    (r \in DOMAIN proc) ~>
      IF r \in DOMAIN proc /\ findIndex(runs, r) # 0
        THEN proc[r].pc = "done" /\ r \notin DOMAIN activeRuns
               /\ runRecord(r).status \in {"completed", "failed"}
        ELSE FALSE


\* C28: when execute replies with a run id for a workflow whose steps all have
\* a positive retry limit, the Run is persisted 'running', the registry holds
\* the id with status 'running', the run has exactly one StepExecution per
\* step of the workflow, none of them 'passed' or 'failed', and no provider
\* call has been answered: the first one is pending, or a send raised before it.
C28_ExecuteDoesNotWait ==
  [][\A reply \in replies' \ replies :
       LET r    == reply.runId
           list == getWorkflowSteps(steps, reply.workflowId)
       IN  reply.status = 201 /\ (\A k \in 1..Len(list) : list[k].retry_limit > 0) =>
             /\ findIndex(runs', r) # 0
             /\ runRecord(r)'.status = "running"
             /\ r \in DOMAIN activeRuns'
             /\ activeRuns'[r] = [workflowId |-> reply.workflowId, status |-> "running"]
             /\ Len(executionsOf(r)') = Len(list)
             /\ \A k \in 1..Len(list) :
                  /\ executionsOf(r)'[k].step_id = list[k].id
                  /\ executionsOf(r)'[k].status \in {"pending", "running"}
             /\ proc'[r].history = <<>>
             /\ proc'[r].pc \in {"calling", "rejected"}
             /\ proc'[r].pc = "calling" => proc'[r].i = 1 /\ proc'[r].attempts = 1]_vars

\* execute has replied with the id of a run of a two-step workflow whose first
\* provider call is pending
C28_Witness ==
  /\ \E reply \in replies : reply.status = 201 /\ reply.runId = "r1"
  /\ "r1" \in DOMAIN proc
  /\ proc["r1"].pc = "calling"
  /\ proc["r1"].history = <<>>
  /\ Len(proc["r1"].steps) = 2
  /\ \A k \in 1..2 : proc["r1"].steps[k].retry_limit > 0
  /\ executionsOf("r1")[1].status = "running"
  /\ executionsOf("r1")[2].status = "pending"


\* C29: a StepExecution that is 'passed' or 'failed' has a null error exactly
\* when it is 'passed', and, when the step made a provider call, its output is
\* what the last call of the step returned: the content of the response, or no
\* text when that call raised.
C29_OutputAndErrorOfLastAttempt ==
  \A r \in DOMAIN proc :
    LET p == proc[r]
        E == executionsOf(r)
        RECURSIVE callsBefore(_)
        callsBefore(k) == IF k = 1 THEN 0 ELSE callsBefore(k - 1) + p.calls[k - 1]
    IN  \A k \in 1..Len(E) :
          E[k].status \in {"passed", "failed"} =>
            /\ (E[k].error = NULL) <=> (E[k].status = "passed")
            /\ p.calls[k] > 0 =>
                 LET last == p.history[callsBefore(k) + p.calls[k]]
                 IN  E[k].output = IF last.raised THEN <<>> ELSE last.result.content


\* C30: after every step of the system, a StepExecution that is 'passed' has
\* as attempts the index of the first attempt of its step whose verdict (the
\* one announced by 'step_evaluated') passed, and that attempt's provider call
\* was the step's last; a
\* delay begins only at the end of an attempt that did not pass and was not
\* the last one allowed, it ends with the start of the next attempt of the
\* same step, and an attempt after the first starts only from a delay.
C30_LoopStopsAtFirstPass ==
  [][\A r \in DOMAIN proc' :
       LET p == proc'[r]
           E == executionsOf(r)'
           verdicts(k) ==
             SelectSeq(eventsOf(r)', LAMBDA e : /\ e.type \in {"step_attempt", "step_evaluated"}
                                                /\ e.stepId = p.steps[k].id)
           passes(k, j) ==
             \E n \in 1..(Len(verdicts(k)) - 1) :
               /\ verdicts(k)[n].type = "step_attempt" /\ verdicts(k)[n].attempt = j
               /\ verdicts(k)[n + 1].type = "step_evaluated" /\ verdicts(k)[n + 1].passed
       IN  /\ \A k \in 1..Len(E) :
                E[k].status = "passed" =>
                  /\ E[k].attempts \in 1..p.calls[k]
                  /\ passes(k, E[k].attempts)
                  /\ \A j \in 1..(E[k].attempts - 1) : ~passes(k, j)
                  /\ p.calls[k] = E[k].attempts
           /\ r \in DOMAIN proc =>
                /\ proc[r].pc # "delay" /\ p.pc = "delay" =>
                     /\ proc[r].pc \in {"calling", "judging"}
                     /\ p.i = proc[r].i /\ p.attempts = proc[r].attempts
                     /\ ~p.passed /\ p.attempts < p.steps[p.i].retry_limit
                /\ proc[r].pc = "delay" /\ p # proc[r] =>
                     /\ p.i = proc[r].i /\ p.attempts = proc[r].attempts + 1
                     /\ p.pc \in {"calling", "rejected"}
                /\ p.i = proc[r].i /\ p.attempts = proc[r].attempts + 1 /\ proc[r].attempts >= 1 =>
                     proc[r].pc = "delay"]_vars


\* C31: every HTTP request of a provider call is answered by a response or a
\* failure.  A successful response ends the call, which returns its result to
\* the engine with no further request; a retryable failure (no response,
\* status >= 500, connection aborted or reset) with requests remaining is
\* followed by the retry delay and the next request and is not seen by the
\* engine; any other failure ends the call with one error raised to the
\* engine.  A call makes at most maxRetries = 3 requests and raises at most
\* once, and the requests a step makes number at most retry_limit x 3.
C31_ProviderCallRetryPolicy ==
  [][\A r \in DOMAIN proc :
       LET retryableFailure(e) ==
             ~e.response \/ e.status >= 500 \/ e.code \in {"ECONNABORTED", "ECONNRESET"}
           answeredNow == providerCall'.answered = providerCall.answered + 1
           outcome     == providerCall'.last
           ended(raised) ==
             /\ Len(proc'[r].history) = Len(proc[r].history) + 1
             /\ proc'[r].history[Len(proc'[r].history)].raised = raised
             /\ providerCall'.attempt = 1
             /\ providerCall'.pc = "requesting"
           retried ==
             /\ providerCall'.pc = "waiting"
             /\ providerCall'.attempt = providerCall.attempt
             /\ proc' = proc
           requests ==
             providerCall'.answered
               + (IF proc'[r].pc = "calling" /\ providerCall'.pc = "requesting" THEN 1 ELSE 0)
       IN  /\ answeredNow /\ outcome.success => ended(FALSE)
           /\ answeredNow /\ ~outcome.success =>
                IF retryableFailure(outcome.error) /\ providerCall.attempt < DefaultMaxRetries
                  THEN retried ELSE ended(TRUE)
           /\ providerCall.pc = "waiting" /\ providerCall' # providerCall =>
                providerCall' = [providerCall EXCEPT !.pc = "requesting", !.attempt = @ + 1]
           /\ providerCall'.attempt \in 1..DefaultMaxRetries
           /\ proc'[r].raises[1] <= proc'[r].calls[1]
           /\ requests <= proc'[r].calls[1] * DefaultMaxRetries
           /\ requests > 0 => requests <= proc'[r].steps[1].retry_limit * DefaultMaxRetries]_vars


\* C32: the tokens and cost of the results the judge's calls give are in no
\* persisted figure: the tokens_used (cost) of a StepExecution never exceeds
\* the tokens (cost) of the responses to the step's own completion calls, the
\* total_tokens (total_cost) of the Run never exceeds their sum over the
\* steps and is that sum once the Run is 'completed', and whenever a judge
\* call has reported usage the totals are strictly less than the spend of
\* all the provider calls made for the Run.
C32_JudgeSpendIsNotCounted ==
  \A r \in DOMAIN proc :
    LET p == proc[r]
        E == executionsOf(r)
        run == runRecord(r)
        RECURSIVE Sum(_)
        Sum(s) == IF s = <<>> THEN 0 ELSE s[1] + Sum(Tail(s))
        ownTokens == Sum(p.spentTokens)
        ownCost   == Sum(p.spentCost)
    IN  /\ \A i \in 1..Len(E) :
             /\ E[i].tokens_used <= p.spentTokens[i]
             /\ E[i].cost <= p.spentCost[i]
             /\ E[i].status = "passed" =>
                  E[i].tokens_used = p.spentTokens[i] /\ E[i].cost = p.spentCost[i]
        /\ run.total_tokens <= ownTokens
        /\ run.total_cost <= ownCost
        /\ run.status = "completed" => run.total_tokens = ownTokens /\ run.total_cost = ownCost
        /\ p.judgeTokens > 0 => run.total_tokens < ownTokens + p.judgeTokens
        /\ p.judgeCost > 0 => run.total_cost < ownCost + p.judgeCost

\* a completed run of an 'llm' step whose judge reported usage, with totals
\* that are not zero
C32_Witness ==
  \E r \in DOMAIN proc :
    /\ proc[r].pc = "done"
    /\ proc[r].steps[1].criteria_type = "llm"
    /\ proc[r].judgeTokens > 0
    /\ proc[r].judgeCost > 0
    /\ runRecord(r).status = "completed"
    /\ runRecord(r).total_tokens > 0
    /\ runRecord(r).total_cost > 0

=============================================================================
